---- MODULE Spec2Model ----
(***************************************************************************)
(* Decentralized Health Wallet Agent: the two demo orchestrators           *)
(* (IntegratedDemo, TelemedicineDemo) and the regulatory payment-split     *)
(* arithmetic of CardamonService / CircleService.                          *)
(*                                                                         *)
(* React state is modelled as committed after every handler segment: the   *)
(* closure a click handler runs in holds the values of the render that     *)
(* preceded the click, and keeps them across every await of that run.      *)
(***************************************************************************)
EXTENDS Integers, Sequences, FiniteSets, TLC

VARIABLES
    comp,           \* which demo component is mounted
    collaborators,  \* "stub": the services as implemented; "replaced": service clients that may reject
    steps,          \* useState<DemoStep[]>
    currentStep,    \* useState(0)
    isRunning,      \* useState(false)
    demoResults,    \* useState({}): the keys present in the aggregate
    run,            \* the running async function: its await position and its closure
    hist,           \* observation of the last operation and of the current/last run
    args,           \* arguments of a processRegulatoryTransaction call
    ret,            \* what that call produced
    splitIn,        \* one split entry and a total handed to the split computation
    splitOut,       \* the amount computed for it
    form,           \* the PaymentProcessor component: its state, its running handlers, its effects
    service,        \* the CardamonService instance: its fields and the calls made on it so far
    auth,           \* the AuthProvider: its reducer state, localStorage, and the last call on it
    onboarding,     \* the UserOnboarding wizard: its step and its form data
    scenario        \* the DemoScenario component: its state and its running timers

demoVars == <<comp, collaborators, steps, currentStep, isRunning, demoResults, run, hist>>
calcVars == <<args, ret>>
entryVars == <<splitIn, splitOut>>
vars == <<comp, collaborators, steps, currentStep, isRunning, demoResults, run, hist,
          args, ret, splitIn, splitOut, form, service,
          auth, onboarding, scenario>>

-----------------------------------------------------------------------------
(* Bounds *)

MaxDuration == 1

\* start clicks taken since mount
MaxStarts == 3

Durations == 1..MaxDuration

-----------------------------------------------------------------------------
(* Step records *)

NoDuration == -1

NoResult == [tag |-> "undefined", val |-> ""]

Payload(v) == [tag |-> "value", val |-> v]

ErrorResult(m) == [tag |-> "error", val |-> m]

IntegratedStepIds ==
    <<"upload_record", "store_blockchain", "compliance_check",
      "payment_split", "circle_payment", "final_verification">>

TelemedicineStepIds ==
    <<"patient_onboarding", "record_management", "consultation_payment", "compliance_audit">>

StepIds(c) == IF c = "IntegratedDemo" THEN IntegratedStepIds ELSE TelemedicineStepIds

InitialSteps(c) ==
    [i \in DOMAIN StepIds(c) |->
        [id |-> StepIds(c)[i], status |-> "pending", result |-> NoResult, duration |-> NoDuration]]

\* updateStepStatus whose map callback does not compare the step id
updateStepStatusOfAll(prev, stepId, status, result, duration) ==
    [i \in DOMAIN prev |->
        [prev[i] EXCEPT !.status = status, !.result = result, !.duration = duration]]

updateStepStatus(prev, stepId, status, result, duration) ==
    [i \in DOMAIN prev |->
        IF prev[i].id = stepId
        THEN [prev[i] EXCEPT !.status = status, !.result = result, !.duration = duration]
        ELSE prev[i]]

-----------------------------------------------------------------------------
(* JavaScript numbers.                                                     *)
(* A number is an IEEE-754 double m * 2^e, its 53-bit significand m kept   *)
(* as little-endian limbs of LimbBits bits (TLC integers are 32 bits wide). *)
(* Decimal strings with two decimals ("150.00") are kept as their cents.   *)

Base == 2^15

SignificandBits == 53

RECURSIVE Pow2(_)
Pow2(k) == IF k = 0 THEN 1 ELSE 2 * Pow2(k - 1)

RECURSIVE IntBitLen(_)
IntBitLen(n) == IF n = 0 THEN 0 ELSE 1 + IntBitLen(n \div 2)

LimbBits == IntBitLen(Base) - 1

RECURSIVE BigNorm(_)
BigNorm(s) ==
    IF s # <<>> /\ s[Len(s)] = 0 THEN BigNorm(SubSeq(s, 1, Len(s) - 1)) ELSE s

RECURSIVE BigFromInt(_)
BigFromInt(n) == IF n = 0 THEN <<>> ELSE <<n % Base>> \o BigFromInt(n \div Base)

RECURSIVE BigToInt(_)
BigToInt(s) == IF s = <<>> THEN 0 ELSE s[1] + Base * BigToInt(Tail(s))

RECURSIVE MulCarry(_, _, _)
MulCarry(s, k, carry) ==
    IF s = <<>> THEN BigFromInt(carry)
    ELSE LET t == s[1] * k + carry
         IN  <<t % Base>> \o MulCarry(Tail(s), k, t \div Base)

BigMulSmall(s, k) == BigNorm(MulCarry(s, k, 0))

RECURSIVE DivRem(_, _, _)
DivRem(s, d, r) ==
    IF s = <<>> THEN [q |-> <<>>, r |-> r]
    ELSE LET n == Len(s)
             t == r * Base + s[n]
             rest == DivRem(SubSeq(s, 1, n - 1), d, t % d)
         IN  [q |-> Append(rest.q, t \div d), r |-> rest.r]

NormQuotient(x) == [q |-> BigNorm(x.q), r |-> x.r]

BigDivSmall(s, d) == NormQuotient(DivRem(s, d, 0))

RECURSIVE AddCarry(_, _, _)
AddCarry(a, b, carry) ==
    IF a = <<>> /\ b = <<>> THEN BigFromInt(carry)
    ELSE LET x == IF a = <<>> THEN 0 ELSE a[1]
             y == IF b = <<>> THEN 0 ELSE b[1]
             t == x + y + carry
         IN  <<t % Base>> \o AddCarry(IF a = <<>> THEN a ELSE Tail(a),
                                      IF b = <<>> THEN b ELSE Tail(b), t \div Base)

BigAdd(a, b) == BigNorm(AddCarry(a, b, 0))

RECURSIVE SubBorrow(_, _, _)
SubBorrow(a, b, borrow) ==
    IF a = <<>> THEN <<>>
    ELSE LET y == IF b = <<>> THEN 0 ELSE b[1]
             t == a[1] - y - borrow
         IN  <<IF t < 0 THEN t + Base ELSE t>>
             \o SubBorrow(Tail(a), IF b = <<>> THEN b ELSE Tail(b), IF t < 0 THEN 1 ELSE 0)

BigSub(a, b) == BigNorm(SubBorrow(a, b, 0))

RECURSIVE BigLess(_, _)
BigLess(a, b) ==
    IF Len(a) # Len(b) THEN Len(a) < Len(b)
    ELSE IF a = <<>> THEN FALSE
    ELSE IF a[Len(a)] # b[Len(b)] THEN a[Len(a)] < b[Len(b)]
    ELSE BigLess(SubSeq(a, 1, Len(a) - 1), SubSeq(b, 1, Len(b) - 1))

BigBitLen(s) ==
    IF s = <<>> THEN 0 ELSE LimbBits * (Len(s) - 1) + IntBitLen(s[Len(s)])

BigIsOdd(s) == s # <<>> /\ s[1] % 2 = 1

BigShl(s, k) ==
    IF s = <<>> THEN <<>>
    ELSE [i \in 1..(k \div LimbBits) |-> 0] \o BigMulSmall(s, Pow2(k % LimbBits))

BigShr(s, k) ==
    LET w == k \div LimbBits
        low == SubSeq(s, 1, IF w < Len(s) THEN w ELSE Len(s))
        high == IF w < Len(s) THEN SubSeq(s, w + 1, Len(s)) ELSE <<>>
        d == BigDivSmall(high, Pow2(k % LimbBits))
    IN  [q |-> d.q, sticky |-> d.r # 0 \/ \E i \in DOMAIN low : low[i] # 0]

Zero == [m |-> <<>>, e |-> 0]

\* the double nearest to N / D * 2^E (round to nearest, ties to even):
\* N is shifted left by s so that the quotient has more than SignificandBits + 1 bits,
\* the quotient is cut to SignificandBits + 1 bits and rounded on the bit cut last
ShiftFor(L) ==
    IF L < SignificandBits + LimbBits + 2 THEN SignificandBits + LimbBits + 2 - L ELSE 0

RoundUp(q2, half, sticky, e) ==
    [m |-> IF half /\ (sticky \/ BigIsOdd(q2)) THEN BigAdd(q2, <<1>>) ELSE q2, e |-> e]

RoundKept(sh, rem, e) ==
    RoundUp(BigDivSmall(sh.q, 2).q, BigIsOdd(sh.q), sh.sticky \/ rem, e)

RoundDivided(d, Lq, E) ==
    RoundKept(BigShr(d.q, Lq - SignificandBits - 1), d.r # 0, E + Lq - SignificandBits)

RoundQuotient(d, E) == RoundDivided(d, BigBitLen(d.q), E)

RoundShifted(N, D, E, s) == RoundQuotient(BigDivSmall(BigShl(N, s), D), E - s)

RoundQuot(N, D, E) ==
    IF N = <<>> THEN Zero ELSE RoundShifted(N, D, E, ShiftFor(BigBitLen(N)))

FromInt(n) == [m |-> BigFromInt(n), e |-> 0]

\* parseFloat of a decimal string with two decimals, given as its cents
parseFloat(cents) == RoundQuot(BigFromInt(cents), 100, 0)

\* x * k and x / k for a small integer k
NumMul(x, k) == RoundQuot(BigMulSmall(x.m, k), 1, x.e)

NumDiv(x, k) == RoundQuot(x.m, k, x.e)

\* floor(x) and whether x has a fractional part
FloorShifted(sh) == [int |-> BigToInt(sh.q), frac |-> sh.sticky]

FloorOf(x) ==
    IF x.e >= 0 THEN [int |-> BigToInt(BigShl(x.m, x.e)), frac |-> FALSE]
    ELSE FloorShifted(BigShr(x.m, 0 - x.e))

FloorLess(f, c) == f.int < c

FloorGreater(f, c) == f.int > c \/ (f.int = c /\ f.frac)

NumLessInt(x, c) == FloorLess(FloorOf(x), c)

NumGreaterInt(x, c) == FloorGreater(FloorOf(x), c)

\* x.toFixed(2), as cents: the n with n/100 closest to x, the larger n on a tie
HalfUp(twice) == (twice \div 2) + (twice % 2)

FixedOf(y, e) ==
    IF e >= 0 THEN BigToInt(BigShl(y, e)) ELSE HalfUp(BigToInt(BigShr(y, 0 - e - 1).q))

\* toFixed that cuts the digits after the second instead of rounding
toFixed2Truncating(x) ==
    IF x.m = <<>> THEN 0
    ELSE IF x.e >= 0 THEN BigToInt(BigShl(BigMulSmall(x.m, 100), x.e))
    ELSE BigToInt(BigShr(BigMulSmall(x.m, 100), 0 - x.e).q)

toFixed2(x) == IF x.m = <<>> THEN 0 ELSE FixedOf(BigMulSmall(x.m, 100), x.e)


RECURSIVE BigMul(_, _)
BigMul(a, b) ==
    IF b = <<>> THEN <<>>
    ELSE BigAdd(BigMulSmall(a, b[1]), <<0>> \o BigMul(a, Tail(b)))

\* x * y, x + y, |x - y| and x > y on numbers
NumMulNum(x, y) == RoundQuot(BigMul(x.m, y.m), 1, x.e + y.e)

AlignExp(x, y) == IF x.e < y.e THEN x.e ELSE y.e

AlignedM(x, e0) == BigShl(x.m, x.e - e0)

NumAdd(x, y) ==
    RoundQuot(BigAdd(AlignedM(x, AlignExp(x, y)), AlignedM(y, AlignExp(x, y))), 1, AlignExp(x, y))

BigAbsDiff(a, b) == IF BigLess(a, b) THEN BigSub(b, a) ELSE BigSub(a, b)

NumAbsDiff(x, y) ==
    RoundQuot(BigAbsDiff(AlignedM(x, AlignExp(x, y)), AlignedM(y, AlignExp(x, y))),
              1, AlignExp(x, y))

NumGreater(x, y) == BigLess(AlignedM(y, AlignExp(x, y)), AlignedM(x, AlignExp(x, y)))

-----------------------------------------------------------------------------
(* CardamonService: split rules and processRegulatoryTransaction *)

None == [defined |-> FALSE, value |-> 0]

Some(v) == [defined |-> TRUE, value |-> v]

\* JavaScript truthiness of an optional number: undefined and 0 are falsy
Truthy(opt) == opt.defined /\ opt.value # 0

SplitRules ==
    << [id |-> "us_healthcare_standard",
        name |-> "US Healthcare Payment Standard",
        jurisdiction |-> "US",
        applicableTransactionTypes |-> {"consultation", "prescription", "lab_test"},
        splits |-> << [recipient |-> "provider", percentage |-> 70,
                       minimumAmount |-> None, maximumAmount |-> None],
                      [recipient |-> "insurance", percentage |-> 15,
                       minimumAmount |-> None, maximumAmount |-> None],
                      [recipient |-> "platform", percentage |-> 10,
                       minimumAmount |-> None, maximumAmount |-> Some(50)],
                      [recipient |-> "regulatory_reserve", percentage |-> 5,
                       minimumAmount |-> Some(1), maximumAmount |-> None] >>,
        forms |-> <<"1099-MISC", "Form 8300">>],
       [id |-> "eu_healthcare_standard",
        name |-> "EU Healthcare Payment Standard",
        jurisdiction |-> "EU",
        applicableTransactionTypes |-> {"consultation", "prescription"},
        splits |-> << [recipient |-> "provider", percentage |-> 75,
                       minimumAmount |-> None, maximumAmount |-> None],
                      [recipient |-> "government", percentage |-> 12,
                       minimumAmount |-> None, maximumAmount |-> None],
                      [recipient |-> "platform", percentage |-> 8,
                       minimumAmount |-> None, maximumAmount |-> None],
                      [recipient |-> "regulatory_reserve", percentage |-> 5,
                       minimumAmount |-> None, maximumAmount |-> None] >>,
        forms |-> <<"VAT Return", "Intrastat Declaration">>] >>

RECURSIVE SelectSeq2(_, _, _)
SelectSeq2(seq, jurisdiction, transactionType) ==
    IF seq = <<>> THEN <<>>
    ELSE (IF Head(seq).jurisdiction = jurisdiction
             /\ transactionType \in Head(seq).applicableTransactionTypes
          THEN <<Head(seq)>> ELSE <<>>)
         \o SelectSeq2(Tail(seq), jurisdiction, transactionType)

getPaymentSplitRules(jurisdiction, transactionType) ==
    SelectSeq2(SplitRules, jurisdiction, transactionType)

\* getRecipientAddress with the provider address kept from the previous call on the instance
getRecipientAddressCached(recipient, metadata) ==
    CASE recipient = "provider" ->
            IF service.calls # <<>>
                /\ service.calls[Len(service.calls)].args.metadata.providerId # ""
            THEN service.calls[Len(service.calls)].args.metadata.providerId
            ELSE IF metadata.providerId # "" THEN metadata.providerId
            ELSE "provider_wallet_address"
      [] recipient = "insurance" ->
            IF metadata.insuranceId # "" THEN metadata.insuranceId ELSE "insurance_wallet_address"
      [] recipient = "government" -> "government_treasury_address"
      [] recipient = "platform" -> "platform_wallet_address"
      [] recipient = "regulatory_reserve" -> "regulatory_reserve_address"
      [] OTHER -> "unknown_address"

getRecipientAddress(recipient, metadata) ==
    CASE recipient = "provider" ->
            IF metadata.providerId # "" THEN metadata.providerId ELSE "provider_wallet_address"
      [] recipient = "insurance" ->
            IF metadata.insuranceId # "" THEN metadata.insuranceId ELSE "insurance_wallet_address"
      [] recipient = "government" -> "government_treasury_address"
      [] recipient = "platform" -> "platform_wallet_address"
      [] recipient = "regulatory_reserve" -> "regulatory_reserve_address"
      [] OTHER -> "unknown_address"

getTaxCategory(recipient, jurisdiction) ==
    CASE jurisdiction = "US" /\ recipient = "provider" -> "Professional Services"
      [] jurisdiction = "US" /\ recipient = "insurance" -> "Insurance Reimbursement"
      [] jurisdiction = "US" /\ recipient = "government" -> "Tax Payment"
      [] jurisdiction = "US" /\ recipient = "platform" -> "Platform Fee"
      [] jurisdiction = "US" /\ recipient = "regulatory_reserve" -> "Regulatory Reserve"
      [] jurisdiction = "EU" /\ recipient = "provider" -> "Medical Services"
      [] jurisdiction = "EU" /\ recipient = "insurance" -> "Health Insurance"
      [] jurisdiction = "EU" /\ recipient = "government" -> "VAT Payment"
      [] jurisdiction = "EU" /\ recipient = "platform" -> "Service Fee"
      [] jurisdiction = "EU" /\ recipient = "regulatory_reserve" -> "Compliance Reserve"
      [] OTHER -> "Other"

\* the body of rule.splits.map: the amount of one split entry, before toFixed
ClampMinimum(splitAmount, minimumAmount) ==
    IF Truthy(minimumAmount) /\ NumLessInt(splitAmount, minimumAmount.value)
    THEN FromInt(minimumAmount.value) ELSE splitAmount

ClampMaximum(splitAmount, maximumAmount) ==
    IF Truthy(maximumAmount) /\ NumGreaterInt(splitAmount, maximumAmount.value)
    THEN FromInt(maximumAmount.value) ELSE splitAmount

SplitAmount(totalAmount, split) ==
    ClampMaximum(ClampMinimum(NumDiv(NumMul(totalAmount, split.percentage), 100),
                              split.minimumAmount),
                 split.maximumAmount)

\* splits in which the first entry absorbs what the clamps of the others took or gave
RECURSIVE AmountsFrom(_, _, _)
AmountsFrom(rule, totalAmount, i) ==
    IF i > Len(rule.splits) THEN 0
    ELSE toFixed2(SplitAmount(totalAmount, rule.splits[i])) + AmountsFrom(rule, totalAmount, i + 1)

ComputeSplitsRebalanced(rule, totalAmount, jurisdiction, metadata) ==
    [i \in DOMAIN rule.splits |->
        [recipient |-> getRecipientAddress(rule.splits[i].recipient, metadata),
         amount |-> IF i = 1 THEN toFixed2(totalAmount) - AmountsFrom(rule, totalAmount, 2)
                    ELSE toFixed2(SplitAmount(totalAmount, rule.splits[i])),
         purpose |-> rule.splits[i].recipient \o "_payment",
         complianceReason |-> "Required by " \o rule.name,
         taxCategory |-> getTaxCategory(rule.splits[i].recipient, jurisdiction)]]

ComputeSplits(rule, totalAmount, jurisdiction, metadata) ==
    [i \in DOMAIN rule.splits |->
        [recipient |-> getRecipientAddress(rule.splits[i].recipient, metadata),
         amount |-> toFixed2(SplitAmount(totalAmount, rule.splits[i])),
         purpose |-> rule.splits[i].recipient \o "_payment",
         complianceReason |-> "Required by " \o rule.name,
         taxCategory |-> getTaxCategory(rule.splits[i].recipient, jurisdiction)]]

Thrown(message) ==
    [ok |-> FALSE, error |-> [isError |-> TRUE, name |-> "Error", message |-> message]]

Returned(value) == [ok |-> TRUE, value |-> value]

\* the transaction as it is before the completion entry is pushed
TransactionBeforeProcessing(rule, amount, currency, jurisdiction, transactionType, metadata) ==
    [originalAmount |-> amount,
     currency |-> currency,
     jurisdiction |-> jurisdiction,
     transactionType |-> transactionType,
     splits |-> ComputeSplits(rule, parseFloat(amount), jurisdiction, metadata),
     complianceFlags |-> <<"REGULATORY_SPLIT_APPLIED", "TAX_REPORTING_REQUIRED",
                           "AUDIT_TRAIL_ENABLED">>,
     auditTrail |-> <<"TRANSACTION_CREATED", "COMPLIANCE_RULES_APPLIED">>,
     reportingRequirements |-> rule.forms]

\* the try block of processRegulatoryTransaction
TransactionFor(rule, amount, currency, jurisdiction, transactionType, metadata) ==
    [originalAmount |-> amount,
     currency |-> currency,
     jurisdiction |-> jurisdiction,
     transactionType |-> transactionType,
     splits |-> ComputeSplits(rule, parseFloat(amount), jurisdiction, metadata),
     complianceFlags |-> <<"REGULATORY_SPLIT_APPLIED", "TAX_REPORTING_REQUIRED",
                           "AUDIT_TRAIL_ENABLED">>,
     auditTrail |-> <<"TRANSACTION_CREATED", "COMPLIANCE_RULES_APPLIED",
                      "TRANSACTION_PROCESSED">>,
     reportingRequirements |-> rule.forms]

RegulatoryWith(splitRules, amount, currency, jurisdiction, transactionType, metadata) ==
    IF Len(splitRules) = 0
    THEN Thrown("No applicable split rules found for jurisdiction and transaction type")
    ELSE Returned(TransactionFor(splitRules[1], amount, currency, jurisdiction,
                                 transactionType, metadata))

RegulatoryTry(amount, currency, jurisdiction, transactionType, metadata) ==
    RegulatoryWith(getPaymentSplitRules(jurisdiction, transactionType),
                   amount, currency, jurisdiction, transactionType, metadata)

\* its catch block: whatever was thrown is replaced by one fixed Error
RegulatoryCatch(attempt) ==
    IF attempt.ok THEN attempt ELSE Thrown("Failed to process regulatory transaction")

processRegulatoryTransaction(amount, currency, jurisdiction, transactionType, metadata) ==
    RegulatoryCatch(RegulatoryTry(amount, currency, jurisdiction, transactionType, metadata))

-----------------------------------------------------------------------------
(* CircleService *)

RECURSIVE SumPercentages(_)
SumPercentages(splits) ==
    IF splits = <<>> THEN Zero
    ELSE NumAdd(SumPercentages(SubSeq(splits, 1, Len(splits) - 1)),
                splits[Len(splits)].percentage)

OneHundredth == RoundQuot(<<1>>, 100, 0)

PaymentTry(fromWalletId, totalAmount, splits) ==
    IF NumGreater(NumAbsDiff(SumPercentages(splits), FromInt(100)), OneHundredth)
    THEN Thrown("Payment splits must total 100%")
    ELSE Returned([amount |-> totalAmount,
                   currency |-> "USDC",
                   source |-> fromWalletId,
                   status |-> "confirmed",
                   fees |-> toFixed2(NumMulNum(parseFloat(totalAmount), OneHundredth))])

PaymentCatch(attempt) ==
    IF attempt.ok THEN attempt ELSE Thrown("Failed to process healthcare payment")

processHealthcarePayment(fromWalletId, totalAmount, splits) ==
    PaymentCatch(PaymentTry(fromWalletId, totalAmount, splits))

\* default percentages with the platform fee of the US rule
DefaultPercentagesOff == <<70, 20, 10, 5>>

DefaultPercentages == <<70, 20, 5, 5>>

SplitRecipients ==
    <<"provider_wallet_address", "insurance_wallet_address",
      "platform_wallet_address", "regulatory_wallet_address">>

SplitPurposes == <<"provider_fee", "insurance_claim", "platform_fee", "regulatory_reserve">>

calculateHealthcareSplits(totalAmount, percentages) ==
    [i \in 1..4 |->
        [recipient |-> SplitRecipients[i],
         amount |-> toFixed2(NumDiv(NumMul(parseFloat(totalAmount), percentages[i]), 100)),
         purpose |-> SplitPurposes[i],
         percentage |-> FromInt(percentages[i])]]

-----------------------------------------------------------------------------
(* The demo orchestrators: runIntegratedDemo and runTelemedicineDemo *)

Comps == {"IntegratedDemo", "TelemedicineDemo"}

\* the awaited calls of a run, in program order, each with the step it belongs to
IntegratedAwaits ==
    << [step |-> 1, callee |-> "kiteService.uploadDocument"],
       [step |-> 2, callee |-> "tronService.storeHealthRecord"],
       [step |-> 3, callee |-> "cardamonService.assessTransactionCompliance"],
       [step |-> 4, callee |-> "cardamonService.processRegulatoryTransaction"],
       [step |-> 5, callee |-> "circleService.processHealthcarePayment"],
       [step |-> 6, callee |-> "tronService.verifyHealthRecord"],
       [step |-> 6, callee |-> "cardamonService.monitorCompliance"] >>

TelemedicineAwaits ==
    << [step |-> 1, callee |-> "setTimeout"],
       [step |-> 2, callee |-> "kiteService.uploadDocument"],
       [step |-> 2, callee |-> "tronService.storeHealthRecord"],
       [step |-> 3, callee |-> "cardamonService.processRegulatoryTransaction"],
       [step |-> 3, callee |-> "circleService.processHealthcarePayment"],
       [step |-> 4, callee |-> "tronService.verifyHealthRecord"],
       [step |-> 4, callee |-> "cardamonService.monitorCompliance"] >>

Awaits(c) == IF c = "IntegratedDemo" THEN IntegratedAwaits ELSE TelemedicineAwaits

NSteps(c) == Len(StepIds(c))

\* the keys setDemoResults adds when a step completes
IntegratedResultKeys ==
    << {"kiteDocument"}, {"tronTransaction"}, {"complianceScore"},
       {"regulatoryTransaction"}, {"circlePayment"}, {} >>

TelemedicineResultKeys ==
    << {"patientProfile"}, {"kiteDocument", "tronTransaction"},
       {"regulatoryTransaction", "circlePayment"}, {"complianceScore"} >>

ResultKeys(c) == IF c = "IntegratedDemo" THEN IntegratedResultKeys ELSE TelemedicineResultKeys

\* the result recorded with a completed step
IntegratedStepResult(st, isValid) ==
    CASE st = 1 -> Payload("kiteDocument")
      [] st = 2 -> Payload("tronTransaction")
      [] st = 3 -> Payload("complianceAssessment")
      [] st = 4 -> Payload("regulatoryTransaction")
      [] st = 5 -> Payload("circlePayment")
      [] OTHER  -> Payload(IF isValid THEN "finalResult recordVerified" ELSE "finalResult")

TelemedicineStepResult(st, isValid) ==
    CASE st = 1 -> Payload("patientProfile")
      [] st = 2 -> Payload("kiteDocument tronTransaction")
      [] st = 3 -> Payload("regulatoryTransaction circlePayment")
      [] OTHER  -> Payload(IF isValid THEN "auditResult recordVerified" ELSE "auditResult")

StepResult(c, st, isValid) ==
    IF c = "IntegratedDemo" THEN IntegratedStepResult(st, isValid)
    ELSE TelemedicineStepResult(st, isValid)

NoTransaction == [originalAmount |-> 0, splits |-> <<>>]

\* the arguments the two demos pass to processRegulatoryTransaction
DemoMetadata(c) ==
    IF c = "IntegratedDemo"
    THEN [patientId |-> "demo_patient", providerId |-> "provider_123",
          insuranceId |-> "insurance_456"]
    ELSE [patientId |-> "patient_sarah", providerId |-> "provider_chen",
          insuranceId |-> "insurance_healthguard"]

DemoAmount(c) == IF c = "IntegratedDemo" THEN 15000 ELSE 5000

DemoJurisdiction(c) == IF c = "IntegratedDemo" THEN "US" ELSE "UK"

DemoRegulatoryCall(c) ==
    processRegulatoryTransaction(DemoAmount(c), "USDC", DemoJurisdiction(c), "consultation",
                                 DemoMetadata(c))

\* the paymentSplits handed to processHealthcarePayment
IntegratedPaymentSplits(regulatoryTransaction) ==
    [i \in DOMAIN regulatoryTransaction.splits |->
        [recipient |-> regulatoryTransaction.splits[i].recipient,
         amount |-> regulatoryTransaction.splits[i].amount,
         purpose |-> regulatoryTransaction.splits[i].purpose,
         percentage |-> NumMul(NumDiv(parseFloat(regulatoryTransaction.splits[i].amount), 150), 100)]]

TelemedicinePaymentSplits ==
    << [recipient |-> "provider_wallet", amount |-> 3500, purpose |-> "provider_fee",
        percentage |-> FromInt(70)],
       [recipient |-> "platform_wallet", amount |-> 1000, purpose |-> "platform_fee",
        percentage |-> FromInt(20)],
       [recipient |-> "insurance_wallet", amount |-> 500, purpose |-> "regulatory_reserve",
        percentage |-> FromInt(10)] >>

DemoWallet(c) ==
    IF c = "IntegratedDemo" THEN "wallet_demo_patient" ELSE "TLBaRhANQoJFTqre9Nf1mjuwNWjCJeYqUL"

DemoPaymentSplits(c, regulatoryTransaction) ==
    IF c = "IntegratedDemo" THEN IntegratedPaymentSplits(regulatoryTransaction)
    ELSE TelemedicinePaymentSplits

DemoPaymentCall(c, regulatoryTransaction) ==
    processHealthcarePayment(DemoWallet(c), DemoAmount(c),
                             DemoPaymentSplits(c, regulatoryTransaction))

\* the message of the Error a service's own catch block throws
FailureMessage(callee) ==
    CASE callee = "kiteService.uploadDocument" -> "Failed to upload and process document"
      [] callee = "tronService.storeHealthRecord" -> "Failed to store health record on blockchain"
      [] callee = "cardamonService.processRegulatoryTransaction" ->
            "Failed to process regulatory transaction"
      [] callee = "circleService.processHealthcarePayment" ->
            "Failed to process healthcare payment"
      [] callee = "cardamonService.monitorCompliance" -> "Failed to setup compliance monitoring"
      [] OTHER -> "collaborator failed"

\* what the services as implemented settle the awaited call with
StubOutcomes(c, callee, regulatoryTransaction) ==
    CASE callee = "cardamonService.processRegulatoryTransaction" -> {DemoRegulatoryCall(c)}
      [] callee = "circleService.processHealthcarePayment" ->
            {DemoPaymentCall(c, regulatoryTransaction)}
      [] callee = "tronService.verifyHealthRecord" -> {Returned(TRUE), Returned(FALSE)}
      [] OTHER -> {Returned(callee)}

\* what a replacement client behind the same contract may settle it with:
\* the stub's value (a placeholder where the stub has none), or a rejection
Rejections(callee) ==
    {Thrown(FailureMessage(callee)),
     [ok |-> FALSE, error |-> [isError |-> FALSE, name |-> "", message |-> ""]]}

Placeholder(callee) ==
    IF callee = "cardamonService.processRegulatoryTransaction"
    THEN Returned(NoTransaction) ELSE Returned(callee)

ResolvedOr(resolved, callee) == IF resolved # {} THEN resolved ELSE {Placeholder(callee)}

ReplacedOutcomes(stub, callee) ==
    IF callee = "setTimeout" THEN stub
    ELSE ResolvedOr({o \in stub : o.ok}, callee) \cup Rejections(callee)

OutcomesOf(stub, callee) ==
    IF collaborators = "stub" THEN stub ELSE ReplacedOutcomes(stub, callee)

CallOutcomes(c, callee, regulatoryTransaction) ==
    OutcomesOf(StubOutcomes(c, callee, regulatoryTransaction), callee)

Idle == [pc |-> 0, currentStep |-> 0, isValid |-> FALSE, regulatoryTransaction |-> NoTransaction]

NoRun == [lastOp |-> "mount", starts |-> 0, clean |-> FALSE, outcome |-> "none",
          failedStep |-> 0, failedMessage |-> "", recovered |-> FALSE]

AllPending(st) ==
    \A i \in DOMAIN st :
        st[i].status = "pending" /\ st[i].result = NoResult /\ st[i].duration = NoDuration

\* error instanceof Error ? error.message : 'Unknown error occurred'
ErrorMessage(error) == IF error.isError THEN error.message ELSE "Unknown error occurred"

\* onClick of the start button: the handler up to its first await
RunDemo(c) ==
    /\ comp = c
    /\ IF isRunning
       THEN /\ hist' = [hist EXCEPT !.lastOp = "start ignored"]
            /\ UNCHANGED <<steps, currentStep, isRunning, demoResults, run>>
       ELSE /\ hist.starts < MaxStarts
            /\ isRunning' = TRUE
            /\ currentStep' = 1
            /\ steps' = updateStepStatus(steps, StepIds(c)[1], "processing", NoResult, NoDuration)
            /\ run' = [Idle EXCEPT !.pc = 1, !.currentStep = currentStep]
            /\ hist' = [lastOp |-> "start", starts |-> hist.starts + 1,
                        clean |-> AllPending(steps), outcome |-> "running",
                        failedStep |-> 0, failedMessage |-> "",
                        recovered |-> (hist.lastOp = "reset" /\ hist.failedStep > 0)]
            /\ UNCHANGED demoResults
    /\ UNCHANGED <<comp, collaborators, args, ret, splitIn, splitOut, form, service,
          auth, onboarding, scenario>>

runIntegratedDemo == RunDemo("IntegratedDemo")

runTelemedicineDemo == RunDemo("TelemedicineDemo")

\* the run after an awaited call resolved with value v, up to its next await or its end
Resume(c, v, duration) ==
    LET i == run.pc
        st == Awaits(c)[i].step
        callee == Awaits(c)[i].callee
        lastOfStep == i = Len(Awaits(c)) \/ Awaits(c)[i + 1].step # st
        isValid == IF callee = "tronService.verifyHealthRecord" THEN v ELSE run.isValid
        regulatoryTransaction ==
            IF callee = "cardamonService.processRegulatoryTransaction"
            THEN v ELSE run.regulatoryTransaction
        locals == [run EXCEPT !.isValid = isValid, !.regulatoryTransaction = regulatoryTransaction]
        done == updateStepStatus(steps, StepIds(c)[st], "completed",
                                 StepResult(c, st, isValid), duration)
    IN  IF ~lastOfStep
        THEN /\ run' = [locals EXCEPT !.pc = i + 1]
             /\ hist' = [hist EXCEPT !.lastOp = "resolve"]
             /\ UNCHANGED <<steps, currentStep, isRunning, demoResults>>
        ELSE /\ demoResults' = demoResults \cup ResultKeys(c)[st]
             /\ IF st < NSteps(c)
                THEN /\ currentStep' = st + 1
                     /\ steps' = updateStepStatus(done, StepIds(c)[st + 1], "processing",
                                                  NoResult, NoDuration)
                     /\ run' = [locals EXCEPT !.pc = i + 1]
                     /\ hist' = [hist EXCEPT !.lastOp = "resolve"]
                     /\ UNCHANGED isRunning
                ELSE /\ steps' = done
                     /\ isRunning' = FALSE
                     /\ run' = [locals EXCEPT !.pc = 0]
                     /\ hist' = [hist EXCEPT !.lastOp = "resolve", !.outcome = "completed"]
                     /\ UNCHANGED currentStep

\* the catch block without the finally block that clears isRunning
CatchWithoutFinally(c, error) ==
    LET index == run.currentStep - 1
    IN  /\ steps' = IF index + 1 \in DOMAIN StepIds(c)
                    THEN updateStepStatus(steps, StepIds(c)[index + 1], "error",
                                          ErrorResult(ErrorMessage(error)), NoDuration)
                    ELSE steps
        /\ run' = [run EXCEPT !.pc = 0]
        /\ hist' = [hist EXCEPT !.lastOp = "reject", !.outcome = "failed",
                                !.failedStep = Awaits(c)[run.pc].step,
                                !.failedMessage = ErrorMessage(error)]
        /\ UNCHANGED <<currentStep, demoResults, isRunning>>

\* the catch and finally blocks, run with the closure's currentStep
Catch(c, error) ==
    LET index == run.currentStep - 1
    IN  /\ steps' = IF index + 1 \in DOMAIN StepIds(c)
                    THEN updateStepStatus(steps, StepIds(c)[index + 1], "error",
                                          ErrorResult(ErrorMessage(error)), NoDuration)
                    ELSE steps
        /\ isRunning' = FALSE
        /\ run' = [run EXCEPT !.pc = 0]
        /\ hist' = [hist EXCEPT !.lastOp = "reject", !.outcome = "failed",
                                !.failedStep = Awaits(c)[run.pc].step,
                                !.failedMessage = ErrorMessage(error)]
        /\ UNCHANGED <<currentStep, demoResults>>

AwaitResolves(c) ==
    /\ comp = c
    /\ run.pc # 0
    /\ \E o \in CallOutcomes(c, Awaits(c)[run.pc].callee, run.regulatoryTransaction) :
         /\ o.ok
         /\ \E d \in Durations : Resume(c, o.value, d)
    /\ UNCHANGED <<comp, collaborators, args, ret, splitIn, splitOut, form, service,
          auth, onboarding, scenario>>

AwaitRejects(c) ==
    /\ comp = c
    /\ run.pc # 0
    /\ \E o \in CallOutcomes(c, Awaits(c)[run.pc].callee, run.regulatoryTransaction) :
         /\ ~o.ok
         /\ Catch(c, o.error)
    /\ UNCHANGED <<comp, collaborators, args, ret, splitIn, splitOut, form, service,
          auth, onboarding, scenario>>

\* resetDemo that returns the steps to pending but keeps what they recorded
resetDemoKeepingResults ==
    /\ steps' = [i \in DOMAIN steps |-> [steps[i] EXCEPT !.status = "pending"]]
    /\ currentStep' = 0
    /\ demoResults' = {}
    /\ hist' = [hist EXCEPT !.lastOp = "reset",
                            !.outcome = IF isRunning THEN hist.outcome ELSE "none"]
    /\ UNCHANGED <<comp, collaborators, isRunning, run, args, ret, splitIn, splitOut, form, service,
          auth, onboarding, scenario>>

\* resetDemo, the handler itself
resetDemo ==
    /\ steps' = [i \in DOMAIN steps |->
                    [steps[i] EXCEPT !.status = "pending", !.result = NoResult,
                                     !.duration = NoDuration]]
    /\ currentStep' = 0
    /\ demoResults' = {}
    /\ hist' = [hist EXCEPT !.lastOp = "reset",
                            !.outcome = IF isRunning THEN hist.outcome ELSE "none"]
    /\ UNCHANGED <<comp, collaborators, isRunning, run, args, ret, splitIn, splitOut, form, service,
          auth, onboarding, scenario>>

\* a reset button that is enabled also while a run is in progress
ResetAlwaysEnabled == resetDemo

\* onClick of the reset button, which is disabled while isRunning
ResetClick == ~isRunning /\ resetDemo

\* resetDemo called while a run is in progress
ResetDuringRun == isRunning /\ resetDemo

-----------------------------------------------------------------------------
(* Calls of the split calculator on inputs drawn from bounded sets *)

MaxCents == 99

\* 50.00 and 150.00 are the demos' amounts, 200.00 the README's insurance claim;
\* below 20.00 the US minimum of 1 applies, above 500.00 the US maximum of 50
TotalBases == {0, 5000, 15000, 20000, 50000}

Totals == {b + d : b \in TotalBases, d \in 0..MaxCents}

Jurisdictions == {"US", "EU", "UK"}

TransactionTypes == {"consultation", "prescription", "insurance_claim", "lab_test"}

Metadatas ==
    {[patientId |-> "demo_patient", providerId |-> "provider_123", insuranceId |-> "insurance_456"],
     [patientId |-> "demo_patient", providerId |-> "", insuranceId |-> ""]}

NoArgs == [amount |-> 0, currency |-> "", jurisdiction |-> "", transactionType |-> "",
           metadata |-> [patientId |-> "", providerId |-> "", insuranceId |-> ""]]

NotCalled == [called |-> FALSE]

NoEntry == [total |-> 0,
            split |-> [recipient |-> "", percentage |-> 0,
                       minimumAmount |-> None, maximumAmount |-> None]]

NotComputed == [computed |-> FALSE]

CallProcessRegulatoryTransaction ==
    /\ args # NoArgs
    /\ ~ret.called
    /\ ret' = [called |-> TRUE,
               settled |-> processRegulatoryTransaction(args.amount, args.currency,
                               args.jurisdiction, args.transactionType, args.metadata)]
    /\ UNCHANGED <<comp, collaborators, steps, currentStep, isRunning, demoResults, run, hist,
                   args, splitIn, splitOut, form, service,
          auth, onboarding, scenario>>

\* split entries as a rule may carry them: any percentage of the rules, clamps unset or set
EntryPercentages == {5, 8, 10, 12, 15, 70, 75}

EntryMinimums == {None, Some(0), Some(1)}

EntryMaximums == {None, Some(0), Some(50)}

Entries ==
    {e \in [recipient : {"platform"}, percentage : EntryPercentages,
            minimumAmount : EntryMinimums, maximumAmount : EntryMaximums] :
        (e.minimumAmount.defined /\ e.maximumAmount.defined)
            => e.minimumAmount.value <= e.maximumAmount.value}

ComputeSplit ==
    /\ splitIn # NoEntry
    /\ ~splitOut.computed
    /\ splitOut' = [computed |-> TRUE,
                    amount |-> toFixed2(SplitAmount(parseFloat(splitIn.total), splitIn.split))]
    /\ UNCHANGED <<comp, collaborators, steps, currentStep, isRunning, demoResults, run, hist,
                   args, ret, splitIn, form, service,
          auth, onboarding, scenario>>

-----------------------------------------------------------------------------
(* PaymentProcessor: the payment form and handlePayment *)

MaxSubmits == 1

\* the content of the amount field: empty, a decimal number (as cents), or other text
EmptyText == [kind |-> "empty", cents |-> 0]

OtherText == [kind |-> "text", cents |-> 0]

Decimal(cents) == [kind |-> "number", cents |-> cents]

FormAmounts == {-100, 0, 5000, 20000}

TypedTexts == {EmptyText, OtherText} \cup {Decimal(c) : c \in FormAmounts}

Purposes == {"Telemedicine Consultation", "Insurance Claim"}

\* e.target.value of <input type="number">: the empty string unless the content is a number
NumberInputValueAsTyped(typed) == typed

NumberInputValue(typed) == IF typed.kind = "number" THEN typed ELSE EmptyText

\* parseFloat(amount) of the form: NaN for text that does not start with a number
NaN == [nan |-> TRUE, cents |-> 0]

FormParseFloat(amount) ==
    IF amount.kind = "number" THEN [nan |-> FALSE, cents |-> amount.cents] ELSE NaN

\* !amount || parseFloat(amount) <= 0
AmountRejected(amount) ==
    \/ amount.kind = "empty"
    \/ ~FormParseFloat(amount).nan /\ FormParseFloat(amount).cents <= 0

\* Math.round(x) for x >= 0
MathRound(x) == IF x.m = <<>> THEN 0 ELSE FixedOf(x.m, x.e)

Tenths(n) == RoundQuot(BigFromInt(n), 10, 0)

Hundredths(n) == RoundQuot(BigFromInt(n), 100, 0)

\* Math.round(parseFloat(paymentData.amount) * share * 100) / 100, as cents
RoundedShare(cents, share) == MathRound(NumMul(NumMulNum(parseFloat(cents), share), 100))

simulateCardamonCompliance(amount) ==
    IF amount.nan THEN [nan |-> TRUE, provider |-> 0, compliance |-> 0, platform |-> 0]
    ELSE [nan |-> FALSE,
          provider |-> RoundedShare(amount.cents, Tenths(8)),
          compliance |-> RoundedShare(amount.cents, Hundredths(15)),
          platform |-> RoundedShare(amount.cents, Hundredths(5))]

NoSplits == [nan |-> FALSE, provider |-> 0, compliance |-> 0, platform |-> 0]

NoForm == [typed |-> EmptyText, amount |-> EmptyText, purpose |-> "Telemedicine Consultation",
           isProcessing |-> FALSE, showSuccess |-> FALSE, timers |-> 0, handlers |-> <<>>,
           calls |-> <<>>, processed |-> <<>>, complianceSplits |-> NoSplits,
           submits |-> 0, alerts |-> 0, lastOp |-> "mount"]

RemoveAt(seq, i) == SubSeq(seq, 1, i - 1) \o SubSeq(seq, i + 1, Len(seq))

FormFrame == UNCHANGED <<comp, collaborators, steps, currentStep, isRunning, demoResults, run,
                         hist, args, ret, splitIn, splitOut, service,
                         auth, onboarding, scenario>>

\* onChange of the amount field
TypeAmount ==
    /\ \E typed \in TypedTexts :
         form' = [form EXCEPT !.typed = typed, !.amount = NumberInputValue(typed),
                              !.lastOp = "type"]
    /\ FormFrame

\* onChange of the purpose select
SelectPurpose ==
    /\ \E purpose \in Purposes : form' = [form EXCEPT !.purpose = purpose, !.lastOp = "select"]
    /\ FormFrame

\* handlePayment up to its first await: the guard, setIsProcessing(true) and the
\* call of simulateCardamonCompliance, which waits on its timer
handlePayment ==
    /\ IF AmountRejected(form.amount)
       THEN form' = [form EXCEPT !.lastOp = "submit"]
       ELSE /\ form.submits < MaxSubmits
            /\ form' = [form EXCEPT
                  !.isProcessing = TRUE,
                  !.handlers = Append(@, [pc |-> "compliance", amount |-> form.amount,
                                          purpose |-> form.purpose]),
                  !.calls = Append(@, "simulateCardamonCompliance"),
                  !.submits = @ + 1,
                  !.lastOp = "submit"]
    /\ FormFrame

\* the payment record with the status of the Circle result
NewPaymentWithResultStatus(handler) ==
    [amount |-> FormParseFloat(handler.amount), currency |-> "USDC",
     recipient |-> "Healthcare Provider", purpose |-> handler.purpose, status |-> "completed"]

\* the payment record handed to onPaymentProcessed
NewPayment(handler) ==
    [amount |-> FormParseFloat(handler.amount), currency |-> "USDC",
     recipient |-> "Healthcare Provider", purpose |-> handler.purpose, status |-> "Completed"]

\* simulateCardamonCompliance returns its splits after its timer; handlePayment goes on
\* to call simulateCircleLayerPayment, which waits on its timer
ComplianceResolves(i) ==
    /\ i \in DOMAIN form.handlers
    /\ form.handlers[i].pc = "compliance"
    /\ form' = [form EXCEPT
          !.complianceSplits = simulateCardamonCompliance(FormParseFloat(form.handlers[i].amount)),
          !.handlers[i].pc = "circle",
          !.calls = Append(@, "simulateCircleLayerPayment"),
          !.lastOp = "compliance resolved"]
    /\ FormFrame

\* simulateCircleLayerPayment returns; handlePayment runs to its end
CircleResolves(i) ==
    /\ i \in DOMAIN form.handlers
    /\ form.handlers[i].pc = "circle"
    /\ form' = [form EXCEPT
          !.processed = Append(@, NewPayment(form.handlers[i])),
          !.showSuccess = TRUE,
          !.amount = EmptyText,
          !.typed = EmptyText,
          !.timers = @ + 1,
          !.isProcessing = FALSE,
          !.handlers = RemoveAt(@, i),
          !.lastOp = "payment processed"]
    /\ FormFrame

\* the catch block and the finally block of handlePayment, for handler i
PaymentFails(f, i) ==
    [f EXCEPT !.alerts = @ + 1,
              !.isProcessing = FALSE,
              !.handlers = RemoveAt(@, i),
              !.lastOp = "payment failed"]

\* the awaited compliance call rejects
ComplianceRejects(i) ==
    /\ collaborators = "replaced"
    /\ i \in DOMAIN form.handlers
    /\ form.handlers[i].pc = "compliance"
    /\ form' = PaymentFails(form, i)
    /\ FormFrame

\* the awaited Circle call rejects
CircleRejects(i) ==
    /\ collaborators = "replaced"
    /\ i \in DOMAIN form.handlers
    /\ form.handlers[i].pc = "circle"
    /\ form' = PaymentFails(form, i)
    /\ FormFrame

\* setTimeout(() => setShowSuccess(false), 3000)
HideSuccess ==
    /\ form.timers > 0
    /\ form' = [form EXCEPT !.showSuccess = FALSE, !.timers = @ - 1, !.lastOp = "timer"]
    /\ FormFrame

-----------------------------------------------------------------------------
(* A CardamonService instance called several times *)

MaxCalls == 3

\* the instance after its constructor, with no call made yet
Constructed == [environment |-> "sandbox", baseUrl |-> "https://api-sandbox.cardamon.ai/v1",
                calls |-> <<>>]

\* Math.random() as it enters the transaction id
RandomParts == {1, 2}

ServiceArgs ==
    [amount : {5000, 50050}, currency : {"USDC"}, jurisdiction : {"US", "UK"},
     transactionType : {"consultation"}, metadata : Metadatas]

\* one more call of processRegulatoryTransaction on the instance
CallOnService ==
    /\ Len(service.calls) < MaxCalls
    /\ \E a \in ServiceArgs, r \in RandomParts :
         service' = [service EXCEPT !.calls =
             Append(@, [args |-> a, id |-> r,
                        settled |-> processRegulatoryTransaction(a.amount, a.currency,
                                        a.jurisdiction, a.transactionType, a.metadata)])]
    /\ UNCHANGED <<comp, collaborators, steps, currentStep, isRunning, demoResults, run, hist,
                   args, ret, splitIn, splitOut, form,
                   auth, onboarding, scenario>>

-----------------------------------------------------------------------------
(* CircleService.processHealthcarePayment called on given splits *)

PaymentTotals == {0, 50, 150, 4999, 5000, 12345, 15000, 20050}

\* percentages of the splits of a call, in hundredths of a percent
PercentageLists ==
    {<<7000, 2000, 500, 500>>, <<6999, 2000, 500, 500>>, <<7001, 2000, 500, 500>>,
     <<7000, 2000, 500>>, <<3333, 3333, 3334>>, <<8000, 1500, 500>>,
     <<7000, 2000, 600, 500>>, <<10000>>, <<9999>>, <<>>}

\* splits with the given percentages, and with the amounts the caller computed
GivenSplits(totalAmount, percentages) ==
    [i \in DOMAIN percentages |->
        [recipient |-> "recipient_wallet",
         amount |-> toFixed2(NumDiv(NumMulNum(parseFloat(totalAmount),
                                              parseFloat(percentages[i])), 100)),
         purpose |-> "provider_fee",
         percentage |-> parseFloat(percentages[i])]]

NoPaymentArgs ==
    [fromWalletId |-> "", totalAmount |-> 0, percentages |-> <<>>, calculated |-> FALSE]

PaymentArgs ==
    [fromWalletId : {"wallet_demo_patient"}, totalAmount : PaymentTotals,
     percentages : PercentageLists, calculated : {FALSE}]
    \cup [fromWalletId : {"wallet_demo_patient"}, totalAmount : PaymentTotals,
          percentages : {<<7000, 2000, 500, 500>>}, calculated : {TRUE}]

\* the splits of the call: those of calculateHealthcareSplits with its default
\* percentages, or splits written by the caller
SplitsOfCall(a) ==
    IF a.calculated THEN calculateHealthcareSplits(a.totalAmount, DefaultPercentages)
    ELSE GivenSplits(a.totalAmount, a.percentages)

\* one call of processHealthcarePayment
CallProcessHealthcarePayment ==
    /\ ~ret.called
    /\ ret' = [called |-> TRUE,
               settled |-> processHealthcarePayment(args.fromWalletId, args.totalAmount,
                                                    SplitsOfCall(args))]
    /\ UNCHANGED <<comp, collaborators, steps, currentStep, isRunning, demoResults, run, hist,
                   args, splitIn, splitOut, form, service, auth, onboarding, scenario>>

-----------------------------------------------------------------------------
(* AuthProvider: the auth state, the stored users and the wallet extension *)

MaxTicks == 1

\* null of a user; a user is a record with isNull FALSE
Null == [isNull |-> TRUE]

NoError == "null"

UserRole == [PATIENT |-> "patient", HEALTHCARE_PROVIDER |-> "healthcare_provider",
             INSURANCE_COMPANY |-> "insurance_company", ADMIN |-> "admin"]

UserRoles == {UserRole[k] : k \in DOMAIN UserRole}

Addresses == {"TWallet1", "TWallet2"}

\* window.tronWeb as the page finds it: absent, present and locked, or ready with an address
TronWebs ==
    {[present |-> FALSE, ready |-> FALSE, base58 |-> ""],
     [present |-> TRUE, ready |-> FALSE, base58 |-> ""]}
    \cup {[present |-> TRUE, ready |-> TRUE, base58 |-> a] : a \in Addresses}

\* { ...base, ...update }
Spread(base, update) ==
    [f \in DOMAIN base \cup DOMAIN update |->
        IF f \in DOMAIN update THEN update[f] ELSE base[f]]

\* JSON.stringify of a user, and JSON.parse of such a text
JSONstringify(user) == [isNull |-> FALSE, json |-> user]

JSONparse(text) == text.json

getItem(localStorage, address) == localStorage[address]

setItem(localStorage, address, text) == [localStorage EXCEPT ![address] = text]

UserAuthenticated(state, user) ==
    [state EXCEPT !.isAuthenticated = TRUE, !.user = user, !.loading = FALSE,
                  !.error = NoError]

authReducer(state, action) ==
    CASE action.type = "SET_LOADING" -> [state EXCEPT !.loading = action.payload]
      [] action.type = "SET_ERROR" ->
            [state EXCEPT !.error = action.payload, !.loading = FALSE]
      [] action.type = "WALLET_CONNECTED" ->
            [state EXCEPT !.walletConnected = TRUE, !.loading = FALSE, !.error = NoError]
      [] action.type = "WALLET_DISCONNECTED" ->
            [state EXCEPT !.walletConnected = FALSE, !.isAuthenticated = FALSE,
                          !.user = Null, !.loading = FALSE, !.error = NoError]
      [] action.type = "USER_AUTHENTICATED" -> UserAuthenticated(state, action.payload)
      [] action.type = "USER_PROFILE_UPDATED" ->
            [state EXCEPT !.user =
                IF ~state.user.isNull
                THEN [state.user EXCEPT !.profile = Spread(@, action.payload)]
                ELSE Null]
      [] action.type = "KYC_STATUS_UPDATED" ->
            [state EXCEPT !.user =
                IF ~state.user.isNull
                THEN [state.user EXCEPT !.kyc = Spread(@, action.payload)]
                ELSE Null]
      [] action.type = "USER_ROLE_SET" ->
            [state EXCEPT !.user =
                IF ~state.user.isNull
                THEN [state.user EXCEPT !.role = action.payload]
                ELSE Null]
      [] OTHER -> state

initialState ==
    [isAuthenticated |-> FALSE, user |-> Null, walletConnected |-> FALSE,
     loading |-> FALSE, error |-> NoError]

\* dispatch on the provider: a is the pair of the reducer state and the storage
dispatch(a, type, payload) ==
    [a EXCEPT !.state = authReducer(@, [type |-> type, payload |-> payload])]

newUser(address, now) ==
    [isNull |-> FALSE,
     id |-> <<"user_", now>>,
     walletAddress |-> address,
     role |-> UserRole.PATIENT,
     profile |-> [firstName |-> "", lastName |-> "", email |-> ""],
     kyc |-> [isVerified |-> FALSE, verificationLevel |-> "none", documents |-> <<>>],
     createdAt |-> now,
     lastLogin |-> now]

\* the existingUser branch of connectWallet
RestoreUser(a, address, now) ==
    dispatch([a EXCEPT !.localStorage =
                  setItem(@, address,
                      JSONstringify([JSONparse(getItem(a.localStorage, address))
                                         EXCEPT !.lastLogin = now]))],
             "USER_AUTHENTICATED",
             [JSONparse(getItem(a.localStorage, address)) EXCEPT !.lastLogin = now])

\* the branch of connectWallet that creates a user
CreateUser(a, address, now) ==
    dispatch([a EXCEPT !.localStorage =
                  setItem(@, address, JSONstringify(newUser(address, now)))],
             "USER_AUTHENTICATED", newUser(address, now))

\* the try block of connectWallet after WALLET_CONNECTED
Authenticate(a, address, now) ==
    IF ~getItem(a.localStorage, address).isNull
    THEN RestoreUser(a, address, now)
    ELSE CreateUser(a, address, now)

\* connectWallet that dispatches no WALLET_CONNECTED
connectWalletWithoutConnected(a, tronWeb, now) ==
    IF tronWeb.present /\ tronWeb.ready
    THEN Authenticate(dispatch(a, "SET_LOADING", TRUE), tronWeb.base58, now)
    ELSE dispatch(dispatch(a, "SET_LOADING", TRUE), "SET_ERROR",
                  "Please install TronLink wallet extension")

connectWallet(a, tronWeb, now) ==
    IF tronWeb.present /\ tronWeb.ready
    THEN Authenticate(
             dispatch(dispatch(a, "SET_LOADING", TRUE), "WALLET_CONNECTED",
                      [address |-> tronWeb.base58]),
             tronWeb.base58, now)
    ELSE dispatch(dispatch(a, "SET_LOADING", TRUE), "SET_ERROR",
                  "Please install TronLink wallet extension")

disconnectWallet(a) == dispatch(a, "WALLET_DISCONNECTED", Null)

\* the three updaters read state.user of the render that created them: closure
updateUserProfile(closure, a, profileUpdate) ==
    IF ~closure.user.isNull
    THEN dispatch([a EXCEPT !.localStorage =
                       setItem(@, closure.user.walletAddress,
                           JSONstringify([closure.user EXCEPT
                               !.profile = Spread(@, profileUpdate)]))],
                  "USER_PROFILE_UPDATED", profileUpdate)
    ELSE a

updateKYCStatus(closure, a, kycUpdate) ==
    IF ~closure.user.isNull
    THEN dispatch([a EXCEPT !.localStorage =
                       setItem(@, closure.user.walletAddress,
                           JSONstringify([closure.user EXCEPT
                               !.kyc = Spread(@, kycUpdate)]))],
                  "KYC_STATUS_UPDATED", kycUpdate)
    ELSE a

setUserRole(closure, a, role) ==
    IF ~closure.user.isNull
    THEN dispatch([a EXCEPT !.localStorage =
                       setItem(@, closure.user.walletAddress,
                           JSONstringify([closure.user EXCEPT !.role = role]))],
                  "USER_ROLE_SET", role)
    ELSE a

Permissions(view, edit, delete, pay, analytics, users, compliance) ==
    [canViewRecords |-> view, canEditRecords |-> edit, canDeleteRecords |-> delete,
     canProcessPayments |-> pay, canViewAnalytics |-> analytics, canManageUsers |-> users,
     canAccessCompliance |-> compliance]

\* the table declared in types/auth
ROLE_PERMISSIONS ==
    [r \in UserRoles |->
        CASE r = UserRole.PATIENT ->
                Permissions(TRUE, TRUE, TRUE, TRUE, TRUE, FALSE, FALSE)
          [] r = UserRole.HEALTHCARE_PROVIDER ->
                Permissions(TRUE, FALSE, FALSE, TRUE, TRUE, FALSE, TRUE)
          [] r = UserRole.INSURANCE_COMPANY ->
                Permissions(TRUE, FALSE, FALSE, TRUE, TRUE, FALSE, TRUE)
          [] r = UserRole.ADMIN ->
                Permissions(TRUE, TRUE, TRUE, TRUE, TRUE, TRUE, TRUE)]

\* the table written out inside hasPermission
rolePermissions ==
    [r \in UserRoles |->
        CASE r = UserRole.PATIENT ->
                Permissions(TRUE, TRUE, TRUE, TRUE, TRUE, FALSE, FALSE)
          [] r = UserRole.HEALTHCARE_PROVIDER ->
                Permissions(TRUE, FALSE, FALSE, TRUE, TRUE, FALSE, TRUE)
          [] r = UserRole.INSURANCE_COMPANY ->
                Permissions(TRUE, FALSE, FALSE, TRUE, TRUE, FALSE, TRUE)
          [] r = UserRole.ADMIN ->
                Permissions(TRUE, TRUE, TRUE, TRUE, TRUE, TRUE, TRUE)]

\* names every object literal inherits from Object.prototype
InheritedNames == {"constructor", "toString"}

JsBoolean(b) == [type |-> "boolean", truthy |-> b]

JsFunction == [type |-> "function", truthy |-> TRUE]

JsUndefined == [type |-> "undefined", truthy |-> FALSE]

\* object[name] on an object literal: its own property, else what the prototype has
PropertyOf(object, name) ==
    IF name \in DOMAIN object THEN JsBoolean(object[name])
    ELSE IF name \in InheritedNames THEN JsFunction
    ELSE JsUndefined

\* value || false
OrFalse(value) == IF value.truthy THEN value ELSE JsBoolean(FALSE)

hasPermission(state, permission) ==
    IF state.user.isNull THEN JsBoolean(FALSE)
    ELSE OrFalse(PropertyOf(rolePermissions[state.user.role], permission))

\* the interval callback and the call at mount
checkWalletConnection(a, tronWeb, now) ==
    IF tronWeb.present /\ tronWeb.ready /\ tronWeb.base58 # ""
    THEN connectWallet(a, tronWeb, now)
    ELSE a

-----------------------------------------------------------------------------
(* UserOnboarding: the wizard's step, its form data and its completion *)

OnboardingStepIds == <<"role-selection", "basic-info", "role-specific", "security-setup">>

\* the fields of formData the validation and the completion read, and one optional field
initialFormData ==
    [firstName |-> "", lastName |-> "", email |-> "", phone |-> "", role |-> "",
     specialization |-> "", licenseNumber |-> "", companyName |-> "",
     registrationNumber |-> "", adminLevel |-> "department", department |-> ""]

\* role-specific part of profileUpdate
RoleFields(formData) ==
    CASE formData.role = UserRole.HEALTHCARE_PROVIDER ->
            [specialization |-> formData.specialization,
             licenseNumber |-> formData.licenseNumber]
      [] formData.role = UserRole.INSURANCE_COMPANY ->
            [companyName |-> formData.companyName,
             registrationNumber |-> formData.registrationNumber]
      [] formData.role = UserRole.ADMIN ->
            [adminLevel |-> formData.adminLevel, department |-> formData.department]
      [] OTHER -> <<>>

ProfileUpdate(formData) ==
    Spread([firstName |-> formData.firstName, lastName |-> formData.lastName,
            email |-> formData.email, phone |-> formData.phone],
           RoleFields(formData))

\* the guard at the head of completeOnboarding
RoleSelected(formData) == formData.role # "" /\ formData.role \in UserRoles

\* the three updaters are those of one render: each reads the same state.user
completeOnboarding(formData, closure, a) ==
    IF ~RoleSelected(formData) THEN a
    ELSE updateKYCStatus(closure,
             setUserRole(closure,
                 updateUserProfile(closure, a, ProfileUpdate(formData)),
                 formData.role),
             [verificationLevel |-> "basic"])

\* isStepValid that accepts every step
isStepValidAlways(currentStepOf, formData) == TRUE

isStepValid(currentStepOf, formData) ==
    CASE currentStepOf = 0 -> formData.role # ""
      [] currentStepOf = 1 ->
            formData.firstName # "" /\ formData.lastName # "" /\ formData.email # ""
      [] currentStepOf = 2 ->
            IF formData.role = UserRole.HEALTHCARE_PROVIDER
            THEN formData.specialization # "" /\ formData.licenseNumber # ""
            ELSE IF formData.role = UserRole.INSURANCE_COMPANY
            THEN formData.companyName # "" /\ formData.registrationNumber # ""
            ELSE IF formData.role = UserRole.ADMIN
            THEN formData.adminLevel # "" /\ formData.department # ""
            ELSE TRUE
      [] currentStepOf = 3 -> TRUE
      [] OTHER -> FALSE

Texts == {"", "x"}

AdminLevels == {"department", "regional", "super"}

\* the fields the current step renders, each with the values its control can give
Editable(currentStepOf, formData) ==
    CASE currentStepOf = 0 -> {<<"role", r>> : r \in UserRoles}
      [] currentStepOf = 1 ->
            {"firstName", "lastName", "email", "phone"} \X Texts
      [] currentStepOf = 2 ->
            IF formData.role = UserRole.HEALTHCARE_PROVIDER
            THEN {"specialization", "licenseNumber"} \X Texts
            ELSE IF formData.role = UserRole.INSURANCE_COMPANY
            THEN {"companyName", "registrationNumber"} \X Texts
            ELSE IF formData.role = UserRole.ADMIN
            THEN ({"adminLevel"} \X AdminLevels) \cup ({"department"} \X Texts)
            ELSE {}
      [] OTHER -> {}

NoQuery == [permission |-> "", answer |-> JsUndefined]

NoAuth ==
    [state |-> initialState, localStorage |-> [a \in Addresses |-> Null], now |-> 0,
     lastOp |-> "construct", loggedOut |-> FALSE, query |-> NoQuery]

NoOnboarding ==
    [mounted |-> FALSE, currentStep |-> 0, formData |-> initialFormData,
     onComplete |-> 0, lastOp |-> "none"]

\* the wizard as AppContent mounts it
MountedOnboarding == [NoOnboarding EXCEPT !.mounted = TRUE, !.lastOp = "mount"]

AuthFrame == UNCHANGED <<comp, collaborators, steps, currentStep, isRunning, demoResults, run,
                         hist, args, ret, splitIn, splitOut, form, service, onboarding,
                         scenario>>

\* the effect of AuthProvider at mount
MountCheck ==
    /\ auth.lastOp = "construct"
    /\ \E w \in TronWebs :
         auth' = [checkWalletConnection(auth, w, auth.now) EXCEPT !.lastOp = "mount"]
    /\ AuthFrame

\* the interval fires, three seconds after the previous check
IntervalCheck ==
    /\ auth.lastOp # "construct"
    /\ auth.now < MaxTicks
    /\ \E w \in TronWebs :
         auth' = [checkWalletConnection(auth, w, auth.now + 1) EXCEPT
                      !.now = auth.now + 1, !.lastOp = "interval"]
    /\ AuthFrame

\* a click on Connect Wallet
ConnectClick ==
    /\ auth.lastOp # "construct"
    /\ \E w \in TronWebs :
         auth' = [connectWallet(auth, w, auth.now) EXCEPT
                      !.lastOp = IF w.present /\ w.ready THEN "connectWallet"
                                 ELSE "connectWallet failed",
                      !.loggedOut = FALSE]
    /\ AuthFrame

\* a click on Logout
Logout ==
    /\ auth.lastOp # "construct"
    /\ auth' = [disconnectWallet(auth) EXCEPT !.lastOp = "disconnectWallet",
                                               !.loggedOut = TRUE]
    /\ AuthFrame

\* forms the wizard submits
SubmittedForms ==
    {[initialFormData EXCEPT !.role = UserRole.HEALTHCARE_PROVIDER, !.firstName = "x",
                             !.lastName = "x", !.email = "x", !.specialization = "x",
                             !.licenseNumber = "x"]}

\* Complete Setup on the wizard's last step
CompleteSetup ==
    /\ auth.lastOp # "construct"
    /\ auth.state.isAuthenticated
    /\ \E formData \in SubmittedForms :
         auth' = [completeOnboarding(formData, auth.state, auth) EXCEPT
                      !.lastOp = "completeOnboarding"]
    /\ AuthFrame

\* one updater called from an event handler of its own
CallUpdateUserProfile ==
    /\ auth.lastOp # "construct"
    /\ \E profileUpdate \in {[phone |-> "x"]} :
         auth' = [updateUserProfile(auth.state, auth, profileUpdate) EXCEPT
                      !.lastOp = "updateUserProfile"]
    /\ AuthFrame

CallSetUserRole ==
    /\ auth.lastOp # "construct"
    /\ \E role \in {UserRole.ADMIN} :
         auth' = [setUserRole(auth.state, auth, role) EXCEPT !.lastOp = "setUserRole"]
    /\ AuthFrame

CallUpdateKYCStatus ==
    /\ auth.lastOp # "construct"
    /\ \E kycUpdate \in {[verificationLevel |-> "basic"]} :
         auth' = [updateKYCStatus(auth.state, auth, kycUpdate) EXCEPT
                      !.lastOp = "updateKYCStatus"]
    /\ AuthFrame

PermissionNames == DOMAIN Permissions(TRUE, TRUE, TRUE, TRUE, TRUE, TRUE, TRUE)

AskedPermissions == PermissionNames \cup InheritedNames \cup {"canDoAnything"}

\* one call of hasPermission
CallHasPermission ==
    /\ auth.query = NoQuery
    /\ \E permission \in AskedPermissions :
         auth' = [auth EXCEPT !.query = [permission |-> permission,
                                         answer |-> hasPermission(auth.state, permission)],
                              !.lastOp = "hasPermission"]
    /\ AuthFrame

OnboardingFrame ==
    UNCHANGED <<comp, collaborators, steps, currentStep, isRunning, demoResults, run,
                hist, args, ret, splitIn, splitOut, form, service, scenario>>

handleInputChange ==
    /\ onboarding.mounted
    /\ \E edit \in Editable(onboarding.currentStep, onboarding.formData) :
         onboarding' = [onboarding EXCEPT !.formData[edit[1]] = edit[2],
                                          !.lastOp = "edit"]
    /\ UNCHANGED auth
    /\ OnboardingFrame

\* a click on Next or Complete Setup; the button is disabled while the step is invalid
handleNext ==
    /\ onboarding.mounted
    /\ isStepValid(onboarding.currentStep, onboarding.formData)
    /\ IF onboarding.currentStep < Len(OnboardingStepIds) - 1
       THEN /\ onboarding' = [onboarding EXCEPT !.currentStep = @ + 1, !.lastOp = "next"]
            /\ UNCHANGED auth
       ELSE IF RoleSelected(onboarding.formData)
       THEN /\ auth' = [completeOnboarding(onboarding.formData, auth.state, auth) EXCEPT
                            !.lastOp = "completeOnboarding"]
            /\ onboarding' = [onboarding EXCEPT !.onComplete = @ + 1, !.mounted = FALSE,
                                                !.lastOp = "complete"]
       ELSE /\ onboarding' = [onboarding EXCEPT !.lastOp = "complete refused"]
            /\ UNCHANGED auth
    /\ OnboardingFrame

\* a click on Back; the button is disabled on the first step
handleBack ==
    /\ onboarding.mounted
    /\ onboarding.currentStep # 0
    /\ IF onboarding.currentStep > 0
       THEN onboarding' = [onboarding EXCEPT !.currentStep = @ - 1, !.lastOp = "back"]
       ELSE UNCHANGED onboarding
    /\ UNCHANGED auth
    /\ OnboardingFrame

-----------------------------------------------------------------------------
(* DemoScenario: the timed walk through a scenario's steps *)

MaxRuns == 2

Scenarios == {"telemedicine", "insurance"}

\* the durations of telemedicineSteps and of insuranceSteps, in milliseconds
telemedicineSteps == <<2000, 3000, 2000, 2500, 3000, 2000, 1500>>

insuranceSteps == <<2000, 3000, 2500, 2000, 3000, 2000, 1500>>

ScenarioSteps(selectedScenario) ==
    IF selectedScenario = "telemedicine" THEN telemedicineSteps ELSE insuranceSteps

CompletionDelay == 1000

NotRunning == [pc |-> "idle", i |-> 0, timer |-> 0, selectedScenario |-> ""]

NoScenario ==
    [currentStep |-> 0, isRunning |-> FALSE, selectedScenario |-> "telemedicine",
     run |-> NotRunning, completed |-> <<>>, starts |-> 0, lastOp |-> "mount"]

ScenarioFrame ==
    UNCHANGED <<comp, collaborators, steps, currentStep, isRunning, demoResults, run,
                hist, args, ret, splitIn, splitOut, form, service, auth, onboarding>>

setSelectedScenario ==
    /\ \E s \in Scenarios :
         scenario' = [scenario EXCEPT !.selectedScenario = s, !.lastOp = "select"]
    /\ ScenarioFrame

\* the loop of runDemo from index i on: the next timer, or the completion timer
RunFrom(selectedScenario, i) ==
    IF i < Len(ScenarioSteps(selectedScenario))
    THEN [pc |-> "step", i |-> i, timer |-> ScenarioSteps(selectedScenario)[i + 1],
          selectedScenario |-> selectedScenario]
    ELSE [pc |-> "completion", i |-> i, timer |-> CompletionDelay,
          selectedScenario |-> selectedScenario]

\* a click on Start Demo; the button is disabled while isRunning
runDemo ==
    /\ ~scenario.isRunning
    /\ scenario.run.pc = "idle"
    /\ scenario.starts < MaxRuns
    /\ scenario' = [scenario EXCEPT !.isRunning = TRUE,
                                    !.currentStep = 0,
                                    !.run = RunFrom(scenario.selectedScenario, 0),
                                    !.starts = @ + 1,
                                    !.lastOp = "start"]
    /\ ScenarioFrame

\* the timer of a step fires and the loop goes on
StepTimerFires ==
    /\ scenario.run.pc = "step"
    /\ scenario' = [scenario EXCEPT
           !.currentStep = scenario.run.i + 1,
           !.run = RunFrom(scenario.run.selectedScenario, scenario.run.i + 1),
           !.lastOp = "step"]
    /\ ScenarioFrame

\* the timer set after the last step fires
CompletionTimerFires ==
    /\ scenario.run.pc = "completion"
    /\ scenario' = [scenario EXCEPT
           !.isRunning = FALSE,
           !.completed = Append(@, scenario.run.selectedScenario),
           !.run = NotRunning,
           !.lastOp = "complete"]
    /\ ScenarioFrame

\* resetDemo that leaves currentStep where it is
resetScenarioKeepingStep(s) == [s EXCEPT !.isRunning = FALSE, !.lastOp = "reset"]

resetScenario(s) == [s EXCEPT !.currentStep = 0, !.isRunning = FALSE, !.lastOp = "reset"]

\* a click on Reset; the button is disabled while isRunning
ScenarioReset ==
    /\ ~scenario.isRunning
    /\ scenario' = resetScenario(scenario)
    /\ ScenarioFrame

-----------------------------------------------------------------------------
(* Specifications *)

Mounted(c) ==
    /\ comp = c
    /\ steps = InitialSteps(c)
    /\ currentStep = 0
    /\ isRunning = FALSE
    /\ demoResults = {}
    /\ run = Idle
    /\ hist = NoRun

\* a demo component after mount
Init ==
    /\ \E c \in Comps : Mounted(c)
    /\ collaborators \in {"stub", "replaced"}
    /\ args = NoArgs
    /\ ret = NotCalled
    /\ splitIn = NoEntry
    /\ splitOut = NotComputed
    /\ form = NoForm
    /\ service = Constructed
    /\ auth = NoAuth
    /\ onboarding = NoOnboarding
    /\ scenario = NoScenario

Next ==
    \/ runIntegratedDemo
    \/ runTelemedicineDemo
    \/ \E c \in Comps : AwaitResolves(c)
    \/ \E c \in Comps : AwaitRejects(c)
    \/ ResetClick

Spec == Init /\ [][Next]_vars

\* the same, with resetDemo also called while a run is in progress
NextDirect == Next \/ ResetDuringRun

SpecDirect == Init /\ [][NextDirect]_vars

\* one call of processRegulatoryTransaction
InitCalc ==
    /\ Mounted("IntegratedDemo")
    /\ collaborators = "stub"
    /\ args \in [amount : Totals, currency : {"USDC"}, jurisdiction : Jurisdictions,
                 transactionType : TransactionTypes, metadata : Metadatas]
    /\ ret = NotCalled
    /\ splitIn = NoEntry
    /\ splitOut = NotComputed
    /\ form = NoForm
    /\ service = Constructed
    /\ auth = NoAuth
    /\ onboarding = NoOnboarding
    /\ scenario = NoScenario

NextCalc == CallProcessRegulatoryTransaction

SpecCalc == InitCalc /\ [][NextCalc]_vars

\* one evaluation of the split computation on one entry
InitEntry ==
    /\ Mounted("IntegratedDemo")
    /\ collaborators = "stub"
    /\ args = NoArgs
    /\ ret = NotCalled
    /\ splitIn \in [total : Totals, split : Entries]
    /\ splitOut = NotComputed
    /\ form = NoForm
    /\ service = Constructed
    /\ auth = NoAuth
    /\ onboarding = NoOnboarding
    /\ scenario = NoScenario

NextEntry == ComputeSplit

SpecEntry == InitEntry /\ [][NextEntry]_vars

\* the payment form after mount, its field events and its submit handler
InitForm ==
    /\ Mounted("IntegratedDemo")
    /\ collaborators \in {"stub", "replaced"}
    /\ args = NoArgs
    /\ ret = NotCalled
    /\ splitIn = NoEntry
    /\ splitOut = NotComputed
    /\ form = NoForm
    /\ service = Constructed
    /\ auth = NoAuth
    /\ onboarding = NoOnboarding
    /\ scenario = NoScenario

NextForm ==
    \/ TypeAmount
    \/ SelectPurpose
    \/ handlePayment
    \/ \E i \in 1..MaxSubmits : ComplianceResolves(i)
    \/ \E i \in 1..MaxSubmits : CircleResolves(i)
    \/ \E i \in 1..MaxSubmits : ComplianceRejects(i)
    \/ \E i \in 1..MaxSubmits : CircleRejects(i)
    \/ HideSuccess

SpecForm == InitForm /\ [][NextForm]_vars

\* a service instance and the calls made on it
InitService ==
    /\ Mounted("IntegratedDemo")
    /\ collaborators = "stub"
    /\ args = NoArgs
    /\ ret = NotCalled
    /\ splitIn = NoEntry
    /\ splitOut = NotComputed
    /\ form = NoForm
    /\ service = Constructed
    /\ auth = NoAuth
    /\ onboarding = NoOnboarding
    /\ scenario = NoScenario

NextService == CallOnService

SpecService == InitService /\ [][NextService]_vars

\* every other component as it is when only the one under study acts
Elsewhere ==
    /\ Mounted("IntegratedDemo")
    /\ collaborators = "stub"
    /\ args = NoArgs
    /\ ret = NotCalled
    /\ splitIn = NoEntry
    /\ splitOut = NotComputed
    /\ form = NoForm
    /\ service = Constructed

\* one call of processHealthcarePayment
InitPayment ==
    /\ Mounted("IntegratedDemo")
    /\ collaborators = "stub"
    /\ args \in PaymentArgs
    /\ ret = NotCalled
    /\ splitIn = NoEntry
    /\ splitOut = NotComputed
    /\ form = NoForm
    /\ service = Constructed
    /\ auth = NoAuth
    /\ onboarding = NoOnboarding
    /\ scenario = NoScenario

NextPayment == CallProcessHealthcarePayment

SpecPayment == InitPayment /\ [][NextPayment]_vars

\* the AuthProvider from its construction on
InitAuth ==
    /\ Elsewhere
    /\ auth = NoAuth
    /\ onboarding = NoOnboarding
    /\ scenario = NoScenario

NextAuth ==
    \/ MountCheck
    \/ IntervalCheck
    \/ ConnectClick
    \/ Logout
    \/ CompleteSetup
    \/ CallUpdateUserProfile
    \/ CallSetUserRole
    \/ CallUpdateKYCStatus

SpecAuth == InitAuth /\ [][NextAuth]_vars

\* the auth states hasPermission is asked in: nobody, or a user of some role
AskedStates ==
    {initialState}
    \cup {UserAuthenticated([initialState EXCEPT !.walletConnected = TRUE],
                            [newUser(a, n) EXCEPT !.role = r]) :
            a \in Addresses, n \in 0..1, r \in UserRoles}

InitPermission ==
    /\ Elsewhere
    /\ auth \in {[NoAuth EXCEPT !.state = st, !.lastOp = "mount"] : st \in AskedStates}
    /\ onboarding = NoOnboarding
    /\ scenario = NoScenario

NextPermission == CallHasPermission

SpecPermission == InitPermission /\ [][NextPermission]_vars

\* the wizard as mounted for a user who has just connected a wallet
InitOnboarding ==
    /\ Elsewhere
    /\ auth = [connectWallet(NoAuth, [present |-> TRUE, ready |-> TRUE,
                                      base58 |-> "TWallet1"], 0)
                  EXCEPT !.lastOp = "connectWallet"]
    /\ onboarding = MountedOnboarding
    /\ scenario = NoScenario

NextOnboarding ==
    \/ handleInputChange
    \/ handleNext
    \/ handleBack

SpecOnboarding == InitOnboarding /\ [][NextOnboarding]_vars

\* the DemoScenario component after mount
InitScenario ==
    /\ Elsewhere
    /\ auth = NoAuth
    /\ onboarding = NoOnboarding
    /\ scenario = NoScenario

NextScenario ==
    \/ setSelectedScenario
    \/ runDemo
    \/ StepTimerFires
    \/ CompletionTimerFires
    \/ ScenarioReset

SpecScenario == InitScenario /\ [][NextScenario]_vars

-----------------------------------------------------------------------------
(* Properties of the demo orchestrators *)

RunEnded == ~isRunning /\ hist.lastOp \in {"resolve", "reject"}

Processing == {i \in DOMAIN steps : steps[i].status = "processing"}

\* C1: when a run that started with all steps pending ends because the call of
\* step k rejected, steps 1..k-1 are completed, step k is error with the message
\* of the rejection as its result, and steps k+1..N are still pending.
C1_FailedRunMarksItsStep ==
    (RunEnded /\ hist.outcome = "failed" /\ hist.clean) =>
        \A i \in DOMAIN steps :
            /\ i < hist.failedStep => steps[i].status = "completed"
            /\ i = hist.failedStep =>
                   steps[i].status = "error" /\ steps[i].result = ErrorResult(hist.failedMessage)
            /\ i > hist.failedStep => steps[i].status = "pending"

\* C2: steps run in declared order without overlap: after every step of the
\* program at most one step is processing, a step enters processing only when
\* it is the first step or its predecessor is completed, and a start invoked
\* while isRunning starts no run and changes no step.
C2_StrictOrderNoOverlap ==
    [][ /\ Cardinality({i \in DOMAIN steps' : steps'[i].status = "processing"}) <= 1
        /\ \A i \in DOMAIN steps :
             (steps[i].status # "processing" /\ steps'[i].status = "processing")
                 => (i = 1 \/ steps'[i - 1].status = "completed")
        /\ (isRunning /\ hist'.lastOp = "start ignored")
                 => (steps' = steps /\ run' = run /\ isRunning' /\ currentStep' = currentStep)
      ]_vars

\* C3: once a run has finished (all steps completed, or a step failed), no new
\* run begins until resetDemo has been called.
C3_NoRestartWithoutReset ==
    [][ (~isRunning /\ hist.outcome \in {"completed", "failed"}) => ~isRunning' ]_vars

AllowedStatusChanges ==
    {<<"pending", "processing">>, <<"processing", "completed">>, <<"processing", "error">>}

\* C4: every status change of a step is pending -> processing, processing ->
\* completed, processing -> error, or a change to pending made by resetDemo.
C4_StatusTransitions ==
    [][ \A i \in DOMAIN steps :
          steps[i].status # steps'[i].status =>
              \/ <<steps[i].status, steps'[i].status>> \in AllowedStatusChanges
              \/ (hist'.lastOp = "reset" /\ steps'[i].status = "pending")
      ]_vars

\* C5: after resetDemo, in whatever run state it was invoked, every step is
\* pending with result and duration undefined, currentStep is 0 and demoResults
\* is empty.
C5_ResetClearsEverything ==
    hist.lastOp = "reset" =>
        /\ \A i \in DOMAIN steps :
             /\ steps[i].status = "pending"
             /\ steps[i].result = NoResult
             /\ steps[i].duration = NoDuration
        /\ currentStep = 0
        /\ demoResults = {}

\* resetDemo has acted in the middle of a run that had already completed a step
C5_Witness ==
    /\ hist.lastOp = "reset"
    /\ isRunning
    /\ run.pc > 2
    /\ hist.starts > 1

\* C6: with the services as implemented, a run started from all-pending ends
\* with every step completed and isRunning false.
C6_StubRunCompletes ==
    (collaborators = "stub" /\ hist.clean /\ hist.lastOp \in {"resolve", "reject"}
        /\ hist.outcome \in {"completed", "failed"}) =>
        /\ ~isRunning
        /\ \A i \in DOMAIN steps : steps[i].status = "completed"

-----------------------------------------------------------------------------
(* Properties of the split calculator *)

Applicable == getPaymentSplitRules(args.jurisdiction, args.transactionType)

\* C7: for a jurisdiction and transaction type that match no split rule the call
\* fails, returns no transaction, and the failure names the missing rule as its
\* cause (an InvalidRuleError, or the message of the missing rule).
C7_NoRuleIsReported ==
    (ret.called /\ Applicable = <<>>) =>
        /\ ~ret.settled.ok
        /\ \/ ret.settled.error.name = "InvalidRuleError"
           \/ ret.settled.error.message
                = "No applicable split rules found for jurisdiction and transaction type"

RECURSIVE SumAmounts(_)
SumAmounts(splits) ==
    IF splits = <<>> THEN 0 ELSE Head(splits).amount + SumAmounts(Tail(splits))

RECURSIVE SumOfPercentages(_)
SumOfPercentages(splits) ==
    IF splits = <<>> THEN 0 ELSE Head(splits).percentage + SumOfPercentages(Tail(splits))

\* the exact share total * percentage / 100 lies below the minimum or above the maximum
ClampActive(total, split) ==
    \/ split.minimumAmount.defined /\ total * split.percentage < split.minimumAmount.value * 10000
    \/ split.maximumAmount.defined /\ total * split.percentage > split.maximumAmount.value * 10000

AbsDiff(a, b) == IF a < b THEN b - a ELSE a - b

\* C8: when no clamp is active (always for the EU rule, and for the US rule on
\* totals that reach no minimum or maximum), the split amounts returned sum to
\* the total within 0.01.
C8_UnclampedSplitsSumToTotal ==
    (ret.called /\ ret.settled.ok
        /\ \A i \in DOMAIN Applicable[1].splits : ~ClampActive(args.amount, Applicable[1].splits[i]))
    => AbsDiff(SumAmounts(ret.settled.value.splits), args.amount) <= 1

\* an unclamped result whose rounded amounts do not add up to the total exactly
C8_Witness ==
    /\ ret.called
    /\ ret.settled.ok
    /\ args.jurisdiction = "EU"
    /\ AbsDiff(SumAmounts(ret.settled.value.splits), args.amount) = 1

\* C9: the percentages of every split rule of the program, and the percentages
\* calculateHealthcareSplits returns for its default arguments, sum to exactly 100.
C9_PercentagesSumTo100 ==
    /\ \A i \in DOMAIN SplitRules : SumOfPercentages(SplitRules[i].splits) = 100
    /\ \A i \in DOMAIN Applicable : SumOfPercentages(Applicable[i].splits) = 100
    /\ FloorOf(SumPercentages(calculateHealthcareSplits(args.amount, DefaultPercentages)))
         = [int |-> 100, frac |-> FALSE]

\* a call to which a rule applied
C9_Witness ==
    /\ ret.called
    /\ ret.settled.ok
    /\ Len(Applicable) = 1
    /\ Len(ret.settled.value.splits) = Len(Applicable[1].splits)

-----------------------------------------------------------------------------
(* Properties of the 50.00 and 200.00 scenarios *)

AmountsOf(splits) == [i \in DOMAIN splits |-> splits[i].amount]

AtCallee(callee) ==
    isRunning /\ run.pc \in DOMAIN Awaits(comp) /\ Awaits(comp)[run.pc].callee = callee

\* C11: the Telemedicine journey splits its 50.00 consultation into provider 80%,
\* compliance 15%, platform 5%, that is 40.00, 7.50 and 2.50: the regulatory
\* transaction it requests yields these amounts and the splits it hands to the
\* Circle payment are these amounts with these percentages.
C11_TelemedicineSplitIs80_15_5 ==
    (comp = "TelemedicineDemo" /\ AtCallee("cardamonService.processRegulatoryTransaction")) =>
        /\ DemoRegulatoryCall(comp).ok
        /\ AmountsOf(DemoRegulatoryCall(comp).value.splits) = <<4000, 750, 250>>
        /\ AmountsOf(TelemedicinePaymentSplits) = <<4000, 750, 250>>
        /\ [i \in DOMAIN TelemedicinePaymentSplits |-> TelemedicinePaymentSplits[i].percentage]
             = <<FromInt(80), FromInt(15), FromInt(5)>>

\* C12: splitting a 200.00 insurance-claim payment succeeds, in a jurisdiction
\* that has split rules, and the split amounts sum to 200.00 within 0.01.
C12_InsuranceClaimSplits ==
    (ret.called /\ args.amount = 20000 /\ args.transactionType = "insurance_claim"
        /\ args.jurisdiction \in {"US", "EU"}) =>
        /\ ret.settled.ok
        /\ AbsDiff(SumAmounts(ret.settled.value.splits), 20000) <= 1

-----------------------------------------------------------------------------
(* Rounding and clamping of the split amounts *)

\* the exact share total * percentage / 100 in cents, rounded half up
ShareHalfUp(total, percentage) == (total * percentage + 50) \div 100

\* the amount of a rule entry as specified: the clamp when one is active,
\* the share rounded half up otherwise
SpecifiedAmount(total, split) ==
    IF split.maximumAmount.defined /\ total * split.percentage > split.maximumAmount.value * 10000
    THEN split.maximumAmount.value * 100
    ELSE IF split.minimumAmount.defined
            /\ total * split.percentage < split.minimumAmount.value * 10000
    THEN split.minimumAmount.value * 100
    ELSE ShareHalfUp(total, split.percentage)

\* C13: every split amount returned is the exact share total * percentage / 100,
\* after clamping, rounded to two decimals half up: a share ending in half a cent
\* is rounded upward.
C13_RoundHalfUp ==
    (ret.called /\ ret.settled.ok) =>
        \A i \in DOMAIN ret.settled.value.splits :
            ret.settled.value.splits[i].amount
                = SpecifiedAmount(args.amount, Applicable[1].splits[i])

-----------------------------------------------------------------------------
(* Recovery, hanging and failure of a run *)

FreshRun(c) ==
    /\ isRunning
    /\ currentStep = 1
    /\ demoResults = {}
    /\ steps = updateStepStatus(InitialSteps(c), StepIds(c)[1], "processing", NoResult, NoDuration)

\* C14: after every run that has ended, by completing or by a failure, isRunning
\* is false and the reset control is enabled; a start that follows the reset of a
\* failed run begins a fresh run: step 1 processing, every other step pending,
\* no results.
C14_FailedRunCanBeResetAndRestarted ==
    /\ hist.outcome \in {"completed", "failed"} => (~isRunning /\ ENABLED ResetClick)
    /\ (hist.lastOp = "start" /\ hist.recovered) => (hist.clean /\ FreshRun(comp))

\* a run started after the reset of a failed run
C14_Witness ==
    /\ hist.lastOp = "start"
    /\ hist.recovered
    /\ isRunning
    /\ hist.starts >= 2

-----------------------------------------------------------------------------
(* Properties of the payment form *)

InvalidAmountText(typed) ==
    typed.kind \in {"empty", "text"} \/ (typed.kind = "number" /\ typed.cents <= 0)

\* C15: handlePayment invoked while the amount field holds an empty, non-numeric,
\* zero or negative amount invokes no collaborator, leaves isProcessing as it
\* was, does not call onPaymentProcessed and changes nothing of the form state.
C15_InvalidAmountBlocksSubmission ==
    [][ (form'.lastOp = "submit" /\ InvalidAmountText(form.typed))
            => form' = [form EXCEPT !.lastOp = "submit"] ]_vars

\* handlePayment was invoked on non-numeric text and nothing is in progress
C15_Witness ==
    /\ form.lastOp = "submit"
    /\ form.typed = OtherText
    /\ ~form.isProcessing
    /\ form.calls = <<>>
    /\ form.processed = <<>>

\* the entries of the applied rule on which a clamp is active for the total
Clamped == {i \in DOMAIN Applicable[1].splits : ClampActive(args.amount, Applicable[1].splits[i])}

\* what the clamps add to the total, in hundredths of a cent
RECURSIVE ClampSurplus(_, _)
ClampSurplus(total, splits) ==
    IF splits = <<>> THEN 0
    ELSE (IF ClampActive(total, Head(splits))
          THEN 100 * SpecifiedAmount(total, Head(splits)) - total * Head(splits).percentage
          ELSE 0) + ClampSurplus(total, Tail(splits))

\* C16: when an entry of the result is clamped, every entry that is not clamped
\* still is its own share total * percentage / 100 rounded to the cent, and the
\* sum of the result is the total plus (clamped amount - unclamped share) of the
\* clamped entries, up to the rounding of the others.
C16_NoRebalancing ==
    (ret.called /\ ret.settled.ok /\ Clamped # {}) =>
        /\ \A j \in DOMAIN ret.settled.value.splits :
             IF j \in Clamped
             THEN ret.settled.value.splits[j].amount = SpecifiedAmount(args.amount, Applicable[1].splits[j])
             ELSE AbsDiff(100 * ret.settled.value.splits[j].amount,
                          args.amount * Applicable[1].splits[j].percentage) <= 50
        /\ AbsDiff(100 * SumAmounts(ret.settled.value.splits),
                   100 * args.amount + ClampSurplus(args.amount, Applicable[1].splits))
             <= 50 * (Len(Applicable[1].splits) - Cardinality(Clamped))

\* a result with a clamped entry whose amounts do not add up to the total
C16_Witness ==
    /\ ret.called
    /\ ret.settled.ok
    /\ Clamped # {}
    /\ AbsDiff(SumAmounts(ret.settled.value.splits), args.amount) > 1

-----------------------------------------------------------------------------
(* Properties of the service instance *)

\* recipient, amount and purpose of each split of a settled call, in order
SplitsView(settled) ==
    IF settled.ok
    THEN [i \in DOMAIN settled.value.splits |->
            [recipient |-> settled.value.splits[i].recipient,
             amount |-> settled.value.splits[i].amount,
             purpose |-> settled.value.splits[i].purpose]]
    ELSE <<>>

C19_UnsettledCallHangsTheRun ==
    [][ (isRunning /\ hist'.lastOp \notin {"resolve", "reject"}) =>
            /\ hist'.lastOp = "start ignored"
            /\ isRunning'
            /\ run' = run
            /\ steps' = steps
            /\ currentStep' = currentStep
            /\ demoResults' = demoResults
            /\ steps[Awaits(comp)[run.pc].step].status = "processing"
      ]_vars

\* a start was tried while the run waits on a call of a later step
C19_Witness ==
    /\ isRunning
    /\ hist.lastOp = "start ignored"
    /\ run.pc > 2
    /\ steps[Awaits(comp)[run.pc].step].status = "processing"

\* the keys the steps before step k add to demoResults
ResultsBefore(c, k) == UNION {ResultKeys(c)[i] : i \in 1..(k - 1)}

\* C20: when a call of step k rejects, the run calls nothing again, the steps
\* before k keep the status completed, the result and the duration recorded for
\* them, and demoResults holds the results of the steps 1..k-1 and nothing else.
C20_NoRetryNoRollback ==
    [][ hist'.lastOp = "reject" =>
            /\ run'.pc = 0
            /\ ~isRunning'
            /\ \A i \in 1..(hist'.failedStep - 1) :
                 steps'[i] = steps[i] /\ steps'[i].status = "completed"
            /\ demoResults' = demoResults
            /\ demoResults' = ResultsBefore(comp, hist'.failedStep)
      ]_vars

-----------------------------------------------------------------------------
(* Properties of the record verification *)

\* C18: verifyHealthRecord returns true for the hash that storeHealthRecord stored
\* for the record: in a demo run with the services as implemented, once the
\* verification of the last step has returned, isValid is true, and the result of
\* the completed last step says the record is verified.
C18_StoredHashVerifies ==
    collaborators = "stub" =>
        /\ AtCallee("cardamonService.monitorCompliance") => run.isValid
        /\ steps[NSteps(comp)].status = "completed"
             => steps[NSteps(comp)].result = StepResult(comp, NSteps(comp), TRUE)

-----------------------------------------------------------------------------
(* Frame of the step list *)

IdsOf(st) == [i \in DOMAIN st |-> st[i].id]

Changed(before, after) == {i \in DOMAIN before : after[i] # before[i]}

\* updateStepStatus applied here changes the step with the given id and no other
UpdateTouchesOnly(st, stepId) ==
    \A i \in DOMAIN st :
        st[i].id # stepId =>
            updateStepStatus(st, stepId, "error", ErrorResult("x"), NoDuration)[i] = st[i]

\* C21: the step list always has the step ids of its definition, in that order;
\* a start changes step 1 only, a resolved call the step it belongs to and the
\* next one only, a rejected call at most one step, and updateStepStatus(stepId)
\* changes no step whose id differs from stepId (none at all for an unknown id).
C21_StepListFrame ==
    [][ /\ IdsOf(steps) = StepIds(comp)
        /\ IdsOf(steps') = StepIds(comp)
        /\ \A stepId \in {StepIds(comp)[i] : i \in DOMAIN StepIds(comp)} \cup {"unknown"} :
             UpdateTouchesOnly(steps', stepId)
        /\ hist'.lastOp = "start" => Changed(steps, steps') \subseteq {1}
        /\ hist'.lastOp = "resolve" =>
             Changed(steps, steps') \subseteq
                 {Awaits(comp)[run.pc].step, Awaits(comp)[run.pc].step + 1}
        /\ hist'.lastOp = "reject" => Cardinality(Changed(steps, steps')) <= 1
      ]_vars

\* a failed run has marked one step as error and left completed steps beside it
C21_Witness ==
    /\ hist.lastOp = "reject"
    /\ \E i \in DOMAIN steps : steps[i].status = "error"
    /\ \E i \in DOMAIN steps : steps[i].status = "completed"
    /\ \E i \in DOMAIN steps : steps[i].status = "pending"

-----------------------------------------------------------------------------
(* Properties of the auth provider *)

LoggedOut(state) ==
    ~state.walletConnected /\ ~state.isAuthenticated /\ state.user.isNull

\* C22: from a logout on, and until Connect Wallet is clicked, the auth state stays
\* walletConnected = false, isAuthenticated = false, user = null; the interval
\* check started at mount does not change that.
C22_LogoutLasts == auth.loggedOut => LoggedOut(auth.state)

Persisted(a) == getItem(a.localStorage, a.state.user.walletAddress)

UpdaterOps == {"completeOnboarding", "updateUserProfile", "setUserRole", "updateKYCStatus"}

\* C23: after completeOnboarding, and after any call of updateUserProfile,
\* setUserRole or updateKYCStatus, the entry stored for the user's wallet address
\* is the user held in memory.
C23_PersistedIsInMemoryUser ==
    (auth.lastOp \in UpdaterOps /\ ~auth.state.user.isNull) =>
        /\ ~Persisted(auth).isNull
        /\ JSONparse(Persisted(auth)) = auth.state.user

\* the fields the selected role requires
RequiredFields(role) ==
    {"firstName", "lastName", "email"}
    \cup (CASE role = "healthcare_provider" -> {"specialization", "licenseNumber"}
            [] role = "insurance_company" -> {"companyName", "registrationNumber"}
            [] role = "admin" -> {"adminLevel", "department"}
            [] OTHER -> {})

\* C24: the wizard's step is always one of 0..3, and it has called onComplete
\* or updated the user only with a form whose role is one of the four roles and
\* whose first name, last name, email and role-required fields are non-empty.
C24_CompletesOnlyValidForms ==
    /\ onboarding.currentStep \in 0..3
    /\ (onboarding.onComplete > 0 \/ auth.lastOp = "completeOnboarding") =>
          /\ onboarding.formData.role \in
                 {"patient", "healthcare_provider", "insurance_company", "admin"}
          /\ \A f \in RequiredFields(onboarding.formData.role) :
                 onboarding.formData[f] # ""
          /\ onboarding.onComplete = 1

\* an administrator has completed the wizard after going back and forth
C24_Witness ==
    /\ onboarding.onComplete = 1
    /\ onboarding.formData.role = "admin"
    /\ onboarding.formData.department # ""
    /\ onboarding.formData.specialization # ""
    /\ auth.state.user.role = "admin"

\* C25: in every state, isAuthenticated implies a user and a connected wallet,
\* and a wallet that is not connected implies no user and not authenticated; a
\* connectWallet that finds no ready wallet extension sets error, leaves loading
\* false and changes neither isAuthenticated, the user nor the stored users.
C25_AuthStateConsistent ==
    /\ [](/\ auth.state.isAuthenticated =>
                ~auth.state.user.isNull /\ auth.state.walletConnected
          /\ ~auth.state.walletConnected =>
                auth.state.user.isNull /\ ~auth.state.isAuthenticated)
    /\ [][auth'.lastOp = "connectWallet failed" =>
            /\ auth'.state.error # NoError
            /\ auth'.state.loading = FALSE
            /\ auth'.state.isAuthenticated = auth.state.isAuthenticated
            /\ auth'.state.user = auth.state.user
            /\ auth'.localStorage = auth.localStorage]_vars

\* a known user is logged out and Connect Wallet has failed
C25_Witness ==
    /\ auth.lastOp = "connectWallet failed"
    /\ auth.state.error # NoError
    /\ ~auth.state.isAuthenticated
    /\ \E a \in Addresses : ~getItem(auth.localStorage, a).isNull

\* C26: hasPermission(p) is false without a user and for a p that is not one of
\* the seven permission names, and is ROLE_PERMISSIONS[user.role][p] otherwise;
\* the table inside hasPermission is ROLE_PERMISSIONS, in which only the admin
\* can manage users and the patient cannot access compliance.
C26_HasPermissionIsTheTable ==
    /\ rolePermissions = ROLE_PERMISSIONS
    /\ \A r \in UserRoles : ROLE_PERMISSIONS[r].canManageUsers <=> r = "admin"
    /\ ~ROLE_PERMISSIONS["patient"].canAccessCompliance
    /\ auth.lastOp = "hasPermission" =>
          auth.query.answer =
              IF auth.state.user.isNull
                 \/ auth.query.permission \notin
                        {"canViewRecords", "canEditRecords", "canDeleteRecords",
                         "canProcessPayments", "canViewAnalytics", "canManageUsers",
                         "canAccessCompliance"}
              THEN JsBoolean(FALSE)
              ELSE JsBoolean(
                       ROLE_PERMISSIONS[auth.state.user.role][auth.query.permission])

-----------------------------------------------------------------------------
(* Properties of the payment handler *)

Last(seq) == seq[Len(seq)]

\* C27: a handling of a valid amount calls the compliance split first and the
\* Circle payment only when the split has resolved, and then hands exactly one
\* payment to onPaymentProcessed, with the amount entered at submission and the
\* status 'Completed'; a handling in which either call rejects hands over
\* nothing; either way isProcessing is false when the handling ends, and every
\* handling begun is in progress, has handed over one payment, or has failed.
C27_PaymentHandling ==
    [][ /\ Len(form'.handlers) > Len(form.handlers) =>
              /\ form'.lastOp = "submit"
              /\ ~AmountRejected(form.amount)
              /\ Last(form'.handlers).amount = form.amount
              /\ form'.calls = Append(form.calls, "simulateCardamonCompliance")
        /\ (form'.calls # form.calls /\ form'.lastOp # "submit") =>
              /\ form'.lastOp = "compliance resolved"
              /\ form'.calls = Append(form.calls, "simulateCircleLayerPayment")
              /\ \E i \in DOMAIN form.handlers :
                    /\ form.handlers[i].pc = "compliance"
                    /\ form'.handlers = [form.handlers EXCEPT ![i].pc = "circle"]
        /\ form'.processed # form.processed =>
              /\ form'.lastOp = "payment processed"
              /\ Len(form'.processed) = Len(form.processed) + 1
              /\ SubSeq(form'.processed, 1, Len(form.processed)) = form.processed
              /\ Last(form'.processed).status = "Completed"
              /\ \E i \in DOMAIN form.handlers :
                    /\ form.handlers[i].pc = "circle"
                    /\ form.handlers[i].amount.kind = "number"
                    /\ Last(form'.processed).amount =
                           [nan |-> FALSE, cents |-> form.handlers[i].amount.cents]
                    /\ form'.handlers = RemoveAt(form.handlers, i)
        /\ form'.lastOp = "payment processed" => form'.processed # form.processed
        /\ form'.lastOp = "payment failed" => form'.processed = form.processed
        /\ form'.lastOp \in {"payment processed", "payment failed"} => ~form'.isProcessing
        /\ form'.submits = Len(form'.handlers) + Len(form'.processed) + form'.alerts
      ]_vars

\* a payment has been handed over after both calls, in that order
C27_Witness ==
    /\ form.lastOp = "payment processed"
    /\ form.calls = <<"simulateCardamonCompliance", "simulateCircleLayerPayment">>
    /\ Len(form.processed) = 1
    /\ form.processed[1].amount = [nan |-> FALSE, cents |-> 20000]
    /\ form.processed[1].status = "Completed"
    /\ ~form.isProcessing

-----------------------------------------------------------------------------
(* Properties of the Circle payment *)

RECURSIVE SumSeq(_)
SumSeq(seq) == IF seq = <<>> THEN 0 ELSE Head(seq) + SumSeq(Tail(seq))

\* the percentages of the call total 100 within 0.01
TotalsHundred(percentages) == AbsDiff(SumSeq(percentages), 10000) <= 1

\* what the claim says of a call whose percentages total 100 within 0.01
PaymentAccepted ==
    /\ ret.settled.ok
    /\ ret.settled.value.status = "confirmed"
    /\ ret.settled.value.amount = args.totalAmount
    /\ AbsDiff(100 * ret.settled.value.fees, args.totalAmount) <= 50

\* C28: processHealthcarePayment rejects, with no payment returned, when the
\* percentages of its splits do not total 100 within 0.01; otherwise it
\* resolves with a payment of status 'confirmed', of the given amount and with
\* a fee of 1% of it (to the cent); the splits of calculateHealthcareSplits with
\* its default percentages are accepted.
C28_PaymentValidatesSplits ==
    ret.called =>
        /\ IF TotalsHundred(args.percentages)
           THEN PaymentAccepted
           ELSE ~ret.settled.ok
        /\ args.calculated => ret.settled.ok

-----------------------------------------------------------------------------
(* Properties of the returned transaction *)

Matches(rule) ==
    /\ rule.jurisdiction = args.jurisdiction
    /\ args.transactionType \in rule.applicableTransactionTypes

\* the first rule of the list that matches the call
FirstApplicable ==
    SplitRules[CHOOSE i \in DOMAIN SplitRules :
                   /\ Matches(SplitRules[i])
                   /\ \A j \in 1..(i - 1) : ~Matches(SplitRules[j])]

\* C29: a transaction returned by processRegulatoryTransaction has the audit
\* trail TRANSACTION_CREATED, COMPLIANCE_RULES_APPLIED, TRANSACTION_PROCESSED,
\* and no other entry; it has one split for each split entry of the first
\* matching rule, in the rule's order; its originalAmount is the amount passed
\* in, whether or not a clamp changed a split.
C29_ReturnedTransactionShape ==
    (ret.called /\ ret.settled.ok) =>
        /\ ret.settled.value.auditTrail =
               <<"TRANSACTION_CREATED", "COMPLIANCE_RULES_APPLIED", "TRANSACTION_PROCESSED">>
        /\ Len(ret.settled.value.splits) = Len(FirstApplicable.splits)
        /\ \A j \in DOMAIN FirstApplicable.splits :
               /\ ret.settled.value.splits[j].purpose =
                      FirstApplicable.splits[j].recipient \o "_payment"
               /\ ret.settled.value.splits[j].complianceReason =
                      "Required by " \o FirstApplicable.name
        /\ ret.settled.value.originalAmount = args.amount

\* a transaction in which a clamp changed a split
C29_Witness ==
    /\ ret.called
    /\ ret.settled.ok
    /\ Clamped # {}
    /\ Len(ret.settled.value.auditTrail) = 3
    /\ ret.settled.value.originalAmount = args.amount
    /\ SumAmounts(ret.settled.value.splits) # args.amount

-----------------------------------------------------------------------------
(* Properties of the scenario walk-through *)

ScenarioRunning == scenario.run.pc # "idle"

\* C30: currentStep is always within 0..steps.length and does not decrease
\* while a run is in progress; isRunning is true during the run and becomes
\* false only when the one-second timer set after the last step fires;
\* onScenarioComplete is called then, once for the run, with the scenario that
\* was selected when the run started; resetDemo sets currentStep to 0 and
\* isRunning to false.
C30_ScenarioRun ==
    [][ /\ scenario'.currentStep \in 0..Len(ScenarioSteps(scenario'.selectedScenario))
        /\ ScenarioRunning => scenario'.currentStep >= scenario.currentStep
        /\ scenario'.run.pc # "idle" => scenario'.isRunning
        /\ (scenario.isRunning /\ ~scenario'.isRunning) =>
              /\ scenario.run.pc = "completion"
              /\ scenario.run.timer = 1000
              /\ scenario.currentStep = Len(ScenarioSteps(scenario.run.selectedScenario))
              /\ scenario'.completed = Append(scenario.completed, scenario.run.selectedScenario)
        /\ scenario'.completed # scenario.completed =>
              scenario.isRunning /\ ~scenario'.isRunning
        /\ (~ScenarioRunning /\ scenario'.run.pc # "idle") =>
              /\ scenario'.run.selectedScenario = scenario.selectedScenario
              /\ scenario'.currentStep = 0
        /\ (ScenarioRunning /\ scenario'.run.pc # "idle") =>
              scenario'.run.selectedScenario = scenario.run.selectedScenario
        /\ scenario'.starts =
              Len(scenario'.completed) + (IF scenario'.run.pc # "idle" THEN 1 ELSE 0)
        /\ scenario'.lastOp = "reset" =>
              scenario'.currentStep = 0 /\ ~scenario'.isRunning
      ]_vars

\* a run has completed for the scenario it was started with, after the other
\* scenario was selected during the run
C30_Witness ==
    /\ scenario.lastOp = "complete"
    /\ scenario.completed = <<"telemedicine">>
    /\ scenario.selectedScenario = "insurance"
    /\ scenario.currentStep = 7
    /\ ~scenario.isRunning

====
